---- MODULE Spec2Model ----
(***************************************************************************)
(* Doppelkopf round engine and table lifecycle of                          *)
(* src/src/services/game_handler.py, the lobby handlers of                 *)
(* src/src/services/lobby_table_handler.py and the game server handlers of *)
(* src/src/wiring/socket_server_wiring.py.                                 *)
(*                                                                         *)
(* A Python dict is a TLA+ function/record, a tuple is a sequence.  A card  *)
(* and a player are the frozendicts built by create_card / create_player.  *)
(* The calls of the random module are nondeterministic choices (\E) of the  *)
(* actions that make them.                                                  *)
(***************************************************************************)
EXTENDS Integers, Sequences, FiniteSets, TLC

VARIABLES
    table,         \* the table value held by the caller of the engine
    game,          \* the round under construction inside gameflow
    pc,            \* position inside gameflow / inside play_table_rounds
    trick_number,  \* next element of range(10) in play_all_tricks
    op,            \* operation in progress or last returned
    i,             \* next element of range(num_rounds) in play_table_rounds
    num_iter,      \* length of that range, evaluated when the call starts
    arg,           \* the table value the operation was called with
    deck,          \* the shuffled deck of the round under construction
    advances,      \* number of rounds gameflow has played on the table (on each
                   \* table, where the caller holds several)
    lobby,         \* the lobby status held by the caller of the lobby handlers
    result,        \* what the last lobby handler, distribute_cards or server
                   \* handler returned
    requested,     \* tablename -> the rounds handle_create_table was given
    held_tables,   \* the table values of a caller that holds several tables
    server,        \* the server state dict of the socket adapter
    game_state,    \* the game_state dict closed over by the game server handlers
    sent,          \* the messages broadcast_message has sent, oldest first
    store,         \* the stores of database_wiring and the active games of the service
    tasks          \* the coroutines of the event loop: where each one stands

vars == <<table, game, pc, trick_number, op, i, num_iter, arg, deck, advances,
          lobby, result, requested, held_tables, server, game_state,
          sent, store, tasks>>

\* the variables of the lobby, which the round engine never touches
lobbyVars == <<lobby, result, requested>>

\* the variables of the hosting process, which neither the round engine nor
\* the lobby handlers touch
hostVars == <<held_tables, server, game_state, sent, store, tasks>>

(***************************************************************************)
(* Bounds of the model                                                     *)
(***************************************************************************)
\* largest configured round count of a table
MaxNumRounds == 2
\* no round is started on a table that already records this many rounds
MaxRounds == 2
\* the shuffles random.sample may produce in the model: the rotations of the
\* deck by these offsets (one call of gameflow step by step), and the single
\* rotation drawn where whole rounds accumulate in the history of a table
ShuffleOffsets == {0, 7, 23}
TableShuffleOffsets == {7}

(***************************************************************************)
(* Python helpers                                                          *)
(***************************************************************************)
None == "None"
Now == "datetime.now()"
EmptyDict == [x \in {} |-> 0]

Min(a, b) == IF a < b THEN a ELSE b

\* s[a:b] of Python for 0 <= a <= b (clipped at the end of s)
Slice(s, a, b) == SubSeq(s, a + 1, Min(b, Len(s)))

\* d.get(key, default)
DictGet(d, key, default) == IF key \in DOMAIN d THEN d[key] ELSE default

RECURSIVE SumSeq(_)
SumSeq(s) == IF s = <<>> THEN 0 ELSE Head(s) + SumSeq(Tail(s))

(***************************************************************************)
(* data_structures.py                                                      *)
(***************************************************************************)
create_player(session, name, type_, uuid) ==
    [session |-> session, name |-> name, type |-> type_, uuid |-> uuid]

create_card(suit, rank, value, is_trump) ==
    [suit |-> suit, rank |-> rank, value |-> value, is_trump |-> is_trump]

create_table(tablename, players, rounds, status) ==
    [tablename |-> tablename, players |-> players, rounds |-> rounds,
     status |-> status]

\* the four players the tests seat at a table
TestPlayers ==
    << create_player("s1", "Player1", "human", "uuid1"),
       create_player("s2", "Player2", "human", "uuid2"),
       create_player("s3", "Player3", "human", "uuid3"),
       create_player("s4", "Player4", "human", "uuid4") >>

\* four players of whom two were given the same uuid: login_player draws the
\* uuid with random.randint(10000, 99999) and does not compare it with the
\* uuids already given
CollidingPlayers ==
    << create_player("s1", "Player1", "human", "uuid1"),
       create_player("s2", "Player2", "human", "uuid2"),
       create_player("s3", "Player3", "human", "uuid1"),
       create_player("s4", "Player4", "human", "uuid4") >>

Uuids(players) == [j \in 1..Len(players) |-> players[j].uuid]

UuidSet(players) == {players[j].uuid : j \in 1..Len(players)}

(***************************************************************************)
(* game_handler.py: deck                                                   *)
(***************************************************************************)
Suits == <<"hearts", "spades", "diamonds", "clubs">>
Ranks == <<"ace", "ten", "king", "queen", "jack">>
RankValue == [ace |-> 11, ten |-> 10, king |-> 4, queen |-> 3, jack |-> 2]

\* create_cards whose trumps are the diamonds alone
create_cards_DiamondsOnly ==
    [n \in 1..(2 * Len(Suits) * Len(Ranks)) |->
        LET suit == Suits[(((n - 1) % (Len(Suits) * Len(Ranks))) \div Len(Ranks)) + 1]
            rank == Ranks[((n - 1) % Len(Ranks)) + 1]
        IN  create_card(suit, rank, RankValue[rank], suit = "diamonds")]

\* for _ in range(2) for suit in (...) for rank, value in (...)
create_cards ==
    [n \in 1..(2 * Len(Suits) * Len(Ranks)) |->
        LET suit == Suits[(((n - 1) % (Len(Suits) * Len(Ranks))) \div Len(Ranks)) + 1]
            rank == Ranks[((n - 1) % Len(Ranks)) + 1]
        IN  create_card(suit, rank, RankValue[rank],
                        (suit = "diamonds") \/ (suit = "clubs" /\ rank = "queen"))]

\* random.sample(cards, len(cards)): a permutation of cards; the model draws
\* it among the rotations by ShuffleOffsets
shuffle_cards(cards, offset) ==
    [n \in 1..Len(cards) |-> cards[((n - 1 + offset) % Len(cards)) + 1]]

\* distribute_cards that deals one card more to each player
distribute_cards_OneMore(cards, players) ==
    IF players = <<>> \/ cards = <<>>
    THEN EmptyDict
    ELSE [uuid \in UuidSet(players) |->
            LET idx == CHOOSE j \in 1..Len(players) : players[j].uuid = uuid
            IN  Slice(cards, idx - 1, idx + (Len(cards) \div Len(players)))]

\* distribute_cards whose share is rounded up
distribute_cards_CeilShare(cards, players) ==
    IF players = <<>> \/ cards = <<>>
    THEN EmptyDict
    ELSE [uuid \in UuidSet(players) |->
            LET idx == CHOOSE j \in 1..Len(players) :
                          /\ players[j].uuid = uuid
                          /\ \A k \in 1..Len(players) :
                                players[k].uuid = uuid => k <= j
            IN  Slice(cards, idx - 1,
                      (idx - 1) + ((Len(cards) + Len(players) - 1) \div Len(players)))]

\* {uuid: cards[i:i + len(cards) // len(players)] for i, uuid in enumerate(...)}
\* (a later entry of the comprehension overwrites an earlier one of the same key)
distribute_cards(cards, players) ==
    IF players = <<>> \/ cards = <<>>
    THEN EmptyDict
    ELSE [uuid \in UuidSet(players) |->
            LET idx == CHOOSE j \in 1..Len(players) :
                          /\ players[j].uuid = uuid
                          /\ \A k \in 1..Len(players) :
                                players[k].uuid = uuid => k <= j
            IN  Slice(cards, idx - 1, (idx - 1) + (Len(cards) \div Len(players)))]

\* random.sample(players, 1): choice is the position drawn
determine_first_player(players, choice) == players[choice].uuid

\* assign_teams that draws a single player for "re"
assign_teams_OneRe(players, pick) ==
    LET player_uuids == Uuids(players)
        re_players == {player_uuids[CHOOSE j \in pick : TRUE]}
    IN  [uuid \in UuidSet(players) |->
            IF uuid \in re_players THEN "re" ELSE "kontra"]

\* random.sample(player_uuids, 2): pick is the set of the two positions drawn
assign_teams(players, pick) ==
    LET player_uuids == Uuids(players)
        re_players == {player_uuids[j] : j \in pick}
    IN  [uuid \in UuidSet(players) |->
            IF uuid \in re_players THEN "re" ELSE "kontra"]

TeamPicks(players) ==
    {pick \in SUBSET (1..Len(players)) : Cardinality(pick) = 2}

calculate_round_score(g) == [re |-> 2, kontra |-> 1]

(***************************************************************************)
(* game_handler.py: round                                                  *)
(***************************************************************************)
create_initial_game_state(players) ==
    [cards |-> EmptyDict,
     current_player |-> "",
     eligible_cards |-> <<>>,
     mode |-> "normal",
     phase |-> "variant",
     eligible_announcements |-> EmptyDict,
     player_teams |-> [uuid \in UuidSet(players) |-> "unknown"],
     announcements |-> <<>>,
     tricks |-> <<>>,
     score |-> EmptyDict,
     start_time |-> Now,
     end_time |-> None,
     players |-> players,
     final_score |-> EmptyDict]

\* initialize_game that deals the first half of the shuffled deck only
initialize_game_HalfDeck(g, offset, choice) ==
    LET shuffled == shuffle_cards(create_cards, offset)
    IN  [g EXCEPT !.cards = distribute_cards(SubSeq(shuffled, 1, Len(shuffled) \div 2),
                                             g.players),
                  !.current_player = determine_first_player(g.players, choice)]

initialize_game(g, offset, choice) ==
    [g EXCEPT !.cards = distribute_cards(shuffle_cards(create_cards, offset), g.players),
              !.current_player = determine_first_player(g.players, choice)]

\* handle_variant_phase that resolves the mode to poverty
handle_variant_phase_Armut(g) == [g EXCEPT !.mode = "armut"]

handle_variant_phase(g) == [g EXCEPT !.mode = "normal"]

handle_poverty_phase(g) == g

\* PlayCards with the played card left in the hand
RECURSIVE PlayCards_CardKept(_, _, _)
PlayCards_CardKept(order, current_cards, trick) ==
    IF order = <<>>
    THEN [cards |-> current_cards, trick |-> trick]
    ELSE LET player_id == Head(order)
             player_cards == current_cards[player_id]
         IN  IF player_cards = <<>>
             THEN PlayCards_CardKept(Tail(order), current_cards, trick)
             ELSE PlayCards_CardKept(Tail(order), current_cards,
                            Append(trick, [player |-> player_id, card |-> Head(player_cards)]))

\* PlayCards with the play recorded but one card too many taken from the hand
RECURSIVE PlayCards_TwoTaken(_, _, _)
PlayCards_TwoTaken(order, current_cards, trick) ==
    IF order = <<>>
    THEN [cards |-> current_cards, trick |-> trick]
    ELSE LET player_id == Head(order)
             player_cards == current_cards[player_id]
         IN  IF player_cards = <<>>
             THEN PlayCards_TwoTaken(Tail(order), current_cards, trick)
             ELSE PlayCards_TwoTaken(Tail(order),
                            [current_cards EXCEPT ![player_id] = Tail(Tail(player_cards))],
                            Append(trick, [player |-> player_id, card |-> Head(player_cards)]))

\* for player_id in players_in_order: play the first card of a non-empty hand
RECURSIVE PlayCards(_, _, _)
PlayCards(order, current_cards, trick) ==
    IF order = <<>>
    THEN [cards |-> current_cards, trick |-> trick]
    ELSE LET player_id == Head(order)
             player_cards == current_cards[player_id]
         IN  IF player_cards = <<>>
             THEN PlayCards(Tail(order), current_cards, trick)
             ELSE PlayCards(Tail(order),
                            [current_cards EXCEPT ![player_id] = Tail(player_cards)],
                            Append(trick, [player |-> player_id, card |-> Head(player_cards)]))

\* NextPlayer that hands the lead to the player after the lead
RECURSIVE NextPlayer_Rotates(_, _, _)
NextPlayer_Rotates(order, current_cards, current_player) ==
    IF Len(order) < 2
    THEN current_player
    ELSE IF current_cards[order[2]] # <<>>
         THEN order[2]
         ELSE NextPlayer_Rotates(Tail(order), current_cards, current_player)

\* first player of the rotated order who still holds a card, else current
RECURSIVE NextPlayer(_, _, _)
NextPlayer(order, current_cards, current_player) ==
    IF order = <<>>
    THEN current_player
    ELSE IF current_cards[Head(order)] # <<>>
         THEN Head(order)
         ELSE NextPlayer(Tail(order), current_cards, current_player)

\* play_trick that records an empty trick when the lead holds no card
play_trick_EmptyTrick(g, t) ==
    LET player_uuid == g.current_player
        player_cards == g.cards[player_uuid]
    IN  IF player_cards = <<>>
        THEN [g EXCEPT !.tricks = Append(@, <<>>)]
        ELSE LET uuids == Uuids(g.players)
                 start_idx == CHOOSE j \in 1..Len(uuids) :
                                 /\ uuids[j] = player_uuid
                                 /\ \A k \in 1..(j - 1) : uuids[k] # player_uuid
                 players_in_order == SubSeq(uuids, start_idx, Len(uuids))
                                        \o SubSeq(uuids, 1, start_idx - 1)
                 played == PlayCards(players_in_order, g.cards, <<>>)
             IN  [g EXCEPT !.tricks = Append(@, played.trick),
                           !.cards = played.cards,
                           !.current_player =
                               NextPlayer(players_in_order, played.cards, player_uuid)]

\* play_trick that plays in the order of the player list, without rotating
\* it to the lead
play_trick_SeatOrder(g, t) ==
    LET player_uuid == g.current_player
        player_cards == g.cards[player_uuid]
    IN  IF player_cards = <<>>
        THEN g
        ELSE LET players_in_order == Uuids(g.players)
                 played == PlayCards(players_in_order, g.cards, <<>>)
             IN  [g EXCEPT !.tricks = Append(@, played.trick),
                           !.cards = played.cards,
                           !.current_player =
                               NextPlayer(players_in_order, played.cards, player_uuid)]

play_trick(g, t) ==
    LET player_uuid == g.current_player
        player_cards == g.cards[player_uuid]
    IN  IF player_cards = <<>>
        THEN g
        ELSE LET uuids == Uuids(g.players)
                 start_idx == CHOOSE j \in 1..Len(uuids) :
                                 /\ uuids[j] = player_uuid
                                 /\ \A k \in 1..(j - 1) : uuids[k] # player_uuid
                 players_in_order == SubSeq(uuids, start_idx, Len(uuids))
                                        \o SubSeq(uuids, 1, start_idx - 1)
                 played == PlayCards(players_in_order, g.cards, <<>>)
             IN  [g EXCEPT !.tricks = Append(@, played.trick),
                           !.cards = played.cards,
                           !.current_player =
                               NextPlayer(players_in_order, played.cards, player_uuid)]

\* finalize_game that leaves the phase as it is
finalize_game_PhaseKept(g) ==
    [g EXCEPT !.score = calculate_round_score(g),
              !.final_score = calculate_round_score(g),
              !.end_time = Now]

\* finalize_game that sets the score and leaves final_score and end_time
finalize_game_ScoreOnly(g) ==
    [g EXCEPT !.phase = "complete",
              !.score = calculate_round_score(g)]

finalize_game(g) ==
    [g EXCEPT !.phase = "complete",
              !.score = calculate_round_score(g),
              !.final_score = calculate_round_score(g),
              !.end_time = Now]

\* create_updated_table that closes the table one round late
create_updated_table_LateClose(t, g) ==
    LET current_rounds == DictGet(t, "rounds", <<>>)
    IN  [key \in DOMAIN t \cup {"rounds", "status"} |->
            CASE key = "rounds" -> Append(current_rounds, g)
              [] key = "status" ->
                    IF Len(current_rounds) + 1 <= DictGet(t, "num_rounds", 1)
                    THEN "waiting" ELSE "closed"
              [] OTHER -> t[key]]

\* create_updated_table that keeps the new round only
create_updated_table_RoundsReplaced(t, g) ==
    LET current_rounds == DictGet(t, "rounds", <<>>)
    IN  [key \in DOMAIN t \cup {"rounds", "status"} |->
            CASE key = "rounds" -> <<g>>
              [] key = "status" ->
                    IF Len(current_rounds) + 1 < DictGet(t, "num_rounds", 1)
                    THEN "waiting" ELSE "closed"
              [] OTHER -> t[key]]

\* create_updated_table that puts the new round before the recorded ones
create_updated_table_Prepended(t, g) ==
    LET current_rounds == DictGet(t, "rounds", <<>>)
    IN  [key \in DOMAIN t \cup {"rounds", "status"} |->
            CASE key = "rounds" -> <<g>> \o current_rounds
              [] key = "status" ->
                    IF Len(current_rounds) + 1 < DictGet(t, "num_rounds", 1)
                    THEN "waiting" ELSE "closed"
              [] OTHER -> t[key]]

create_updated_table(t, g) ==
    LET current_rounds == DictGet(t, "rounds", <<>>)
    IN  [key \in DOMAIN t \cup {"rounds", "status"} |->
            CASE key = "rounds" -> Append(current_rounds, g)
              [] key = "status" ->
                    IF Len(current_rounds) + 1 < DictGet(t, "num_rounds", 1)
                    THEN "waiting" ELSE "closed"
              [] OTHER -> t[key]]

NumTricks == 10

\* reduce(play_trick, range(n), g)
RECURSIVE ReducePlayTrick(_, _)
ReducePlayTrick(g, n) ==
    IF n = 0 THEN g ELSE play_trick(ReducePlayTrick(g, n - 1), n - 1)

play_all_tricks(g) == ReducePlayTrick([g EXCEPT !.phase = "playing"], NumTricks)

\* lambda g: handle_poverty_phase(g) if g["mode"] == "armut" else g
poverty_step(g) == IF g.mode = "armut" THEN handle_poverty_phase(g) ELSE g

\* gameflow line 96-97
initial_state(players, pick) ==
    [create_initial_game_state(players) EXCEPT
        !.player_teams = assign_teams(players, pick)]

\* the outcomes of the three draws of the random module in one gameflow:
\* pick for assign_teams, offset for shuffle_cards, choice for
\* determine_first_player (the first or the last player, where whole rounds
\* accumulate in the history of a table)
Draws(players) ==
    [pick : TeamPicks(players), offset : TableShuffleOffsets,
     choice : {1, Len(players)}]

\* gameflow line 101-111: the reduce over the five phase functions
play_game(players, d) ==
    finalize_game(
        play_all_tricks(
            poverty_step(
                handle_variant_phase(
                    initialize_game(initial_state(players, d.pick),
                                    d.offset, d.choice)))))

\* play_game of the four test players, tabulated by the draws
TestGames ==
    {[draw |-> d, game |-> play_game(TestPlayers, d)] : d \in Draws(TestPlayers)}

\* the four players logged in to the lobby, in the order of their logins
LobbyPlayers ==
    << create_player("", "Player1", "", "token_10000"),
       create_player("", "Player2", "", "token_10001"),
       create_player("", "Player3", "", "token_54321"),
       create_player("", "Player4", "", "token_99999") >>

\* play_game of the four lobby players, tabulated by the draws
LobbyGames ==
    {[draw |-> d, game |-> play_game(LobbyPlayers, d)] : d \in Draws(LobbyPlayers)}

gameflow(t, d) ==
    create_updated_table(t,
        IF t["players"] = TestPlayers
        THEN (CHOOSE r \in TestGames : r.draw = d).game
        ELSE IF t["players"] = LobbyPlayers
        THEN (CHOOSE r \in LobbyGames : r.draw = d).game
        ELSE play_game(t["players"], d))

\* play_round without its test of the status
play_round_NoClosedTest(t, d) == gameflow(t, d)

play_round(t, d) ==
    IF t["status"] = "closed" THEN t ELSE gameflow(t, d)

\* play_table_rounds that plays a single round whatever the table configures
play_table_rounds_range_One(t) == 1

\* play_table_rounds: len(range(table.get("num_rounds", 1)))
play_table_rounds_range(t) == DictGet(t, "num_rounds", 1)

(***************************************************************************)
(* lobby_table_handler.py                                                  *)
(***************************************************************************)
\* {**d, key: value}
DictSet(d, key, value) ==
    [k \in DOMAIN d \cup {key} |-> IF k = key THEN value ELSE d[k]]

create_lobby_status(players, tables) == [players |-> players, tables |-> tables]

create_empty_lobby == create_lobby_status(<<>>, <<>>)

\* a Python str held where a player dict may be held: the token that
\* connect_player appends to the players of the lobby, the player_name that
\* add_player_to_table appends to the players of a table
Str(s) == [str |-> s]

\* isinstance(x, dict), for x a player dict (a frozendict) or a str
IsDict(x) == "str" \notin DOMAIN x

\* (success, value, error)
create_result(success, value, error) == <<success, value, error>>

\* f"token_{n}"
Token(n) == "token_" \o ToString(n)

connect_player(status, token) ==
    IF token = ""
    THEN create_result(FALSE, None, "Token is required")
    ELSE create_result(TRUE,
            [players |-> Append(status.players, Str(token)),
             tables |-> status.tables],
            None)

\* login_player without its test of the names already given
login_player_NoNameTest(status, name, n) ==
    IF name = ""
    THEN create_result(FALSE, None, "Player name is required")
    ELSE LET player == create_player("", name, "", Token(n))
         IN  create_result(TRUE,
                <<[players |-> Append(status.players, player),
                   tables |-> status.tables], player>>,
                None)

\* n is the number random.randint(10000, 99999) draws
login_player(status, name, n) ==
    IF name = ""
    THEN create_result(FALSE, None, "Player name is required")
    ELSE IF \E j \in 1..Len(status.players) :
               IsDict(status.players[j]) /\ status.players[j].name = name
    THEN create_result(FALSE, None, "Player name already exists")
    ELSE LET player == create_player("", name, "", Token(n))
         IN  create_result(TRUE,
                <<[players |-> Append(status.players, player),
                   tables |-> status.tables], player>>,
                None)

\* create_table of the lobby, as handle_create_table returns it
handle_create_table(status, name, rounds) ==
    IF name = ""
    THEN create_result(FALSE, None, "Table name is required")
    ELSE IF rounds <= 0
    THEN create_result(FALSE, None, "Number of rounds must be positive")
    ELSE LET t == create_table(name, <<>>, <<>>, "open")
         IN  create_result(TRUE,
                <<[players |-> status.players,
                   tables |-> Append(status.tables, t)], t>>,
                None)

\* tuple(updated_table if t["tablename"] == table["tablename"] else t ...)
ReplaceTable(tables, t, updated_table) ==
    [j \in 1..Len(tables) |->
        IF tables[j]["tablename"] = t["tablename"]
        THEN updated_table ELSE tables[j]]

\* add_player_to_table that refuses only a table of more than 4 players
add_player_to_table_FiveSeats(status, t, player_name) ==
    IF Len(t["players"]) > 4
    THEN create_result(FALSE, None, "Table is full")
    ELSE LET updated_table ==
                 DictSet(t, "players", Append(t["players"], Str(player_name)))
         IN  create_result(TRUE,
                <<[players |-> status.players,
                   tables |-> ReplaceTable(status.tables, t, updated_table)],
                  TRUE, updated_table>>,
                None)

add_player_to_table(status, t, player_name) ==
    IF Len(t["players"]) >= 4
    THEN create_result(FALSE, None, "Table is full")
    ELSE LET updated_table ==
                 DictSet(t, "players", Append(t["players"], Str(player_name)))
         IN  create_result(TRUE,
                <<[players |-> status.players,
                   tables |-> ReplaceTable(status.tables, t, updated_table)],
                  TRUE, updated_table>>,
                None)

\* start_table that refuses only a table without players
start_table_AnySeated(status, t) ==
    IF Len(t["players"]) = 0
    THEN create_result(FALSE, None, "Table must have exactly 4 players")
    ELSE LET updated_table ==
                 DictSet(DictSet(t, "status", "playing"), "rounds", <<>>)
         IN  create_result(TRUE,
                <<[players |-> status.players,
                   tables |-> ReplaceTable(status.tables, t, updated_table)],
                  TRUE, updated_table>>,
                None)

start_table(status, t) ==
    IF Len(t["players"]) # 4
    THEN create_result(FALSE, None, "Table must have exactly 4 players")
    ELSE LET updated_table ==
                 DictSet(DictSet(t, "status", "playing"), "rounds", <<>>)
         IN  create_result(TRUE,
                <<[players |-> status.players,
                   tables |-> ReplaceTable(status.tables, t, updated_table)],
                  TRUE, updated_table>>,
                None)

(***************************************************************************)
(* socket_adapter/server_adapter.py, wiring/socket_server_wiring.py and    *)
(* frontend/terminal/game_output.py: the handlers of a player's action     *)
(***************************************************************************)
create_server_state(port) ==
    [port |-> port, clients |-> {}, running |-> FALSE, task |-> None]

create_game_state ==
    [players |-> <<>>, current_turn |-> None, started |-> FALSE,
     completed |-> FALSE]

\* what a handler comes to: the exception it raises or None, and the value
\* it returns (<<>> for the None of Python, <<v>> for a value v)
Outcome(error, returned) == [error |-> error, returned |-> returned]

\* json.dumps({'type': ..., 'payload': ..., 'timestamp': ...}) as received
\* by the clients in to
Message(msg_type, payload, to) ==
    [type |-> msg_type, payload |-> payload, timestamp |-> Now, to |-> to]

\* broadcast_message: failing is the set of clients whose send raises a
\* WebSocketException, which are removed from server['clients']
broadcast_message(srv, msg_type, payload, failing) ==
    IF ~srv.running
    THEN [error |-> "RuntimeError", server |-> srv, sent |-> <<>>]
    ELSE [error |-> None,
          server |-> [srv EXCEPT !.clients = @ \ failing],
          sent |-> <<Message(msg_type, payload, srv.clients \ failing)>>]

\* handle_player_connect: the player is appended before the broadcast
handle_player_connect(srv, gs, payload, failing) ==
    LET player_name == DictGet(payload, "name", "")
    IN  IF player_name = ""
        THEN [error |-> None, server |-> srv, sent |-> <<>>, game_state |-> gs]
        ELSE LET joined == [gs EXCEPT !.players =
                               Append(@, [name |-> player_name,
                                          connected |-> TRUE, ready |-> FALSE])]
                 cast == broadcast_message(srv, "game_update",
                             [gameState |-> joined, players |-> joined.players,
                              currentTurn |-> joined.current_turn], failing)
             IN  [error |-> cast.error, server |-> cast.server,
                  sent |-> cast.sent, game_state |-> joined]

\* handle_player_action: no test of game_state['current_turn']
handle_player_action(srv, gs, payload, failing) ==
    LET action == DictGet(payload, "action", "")
        player == DictGet(payload, "player", "")
    IN  IF action = "" \/ player = ""
        THEN [error |-> None, server |-> srv, sent |-> <<>>, game_state |-> gs]
        ELSE LET cast == broadcast_message(srv, "player_turn",
                             [player |-> player, action |-> action], failing)
             IN  [error |-> cast.error, server |-> cast.server,
                  sent |-> cast.sent, game_state |-> gs]

\* handle_card_play: choice is the number the player enters
handle_card_play(g, player_token, choice) ==
    IF g.current_player # player_token
    THEN Outcome(None, <<>>)
    ELSE Outcome(None, <<g.cards[player_token][choice]>>)

\* database_wiring.py, create_lobby_store: the store before its first call
create_lobby_store == [tables |-> <<>>, sessions |-> EmptyDict, history |-> <<>>]

\* create_table of the lobby store: the new store and the table_id returned
lobby_store_create_table(st, table_data) ==
    LET table_id == "table_" \o ToString(Len(st.tables))
        table_record ==
            DictSet(DictSet(DictSet(table_data, "id", table_id),
                            "created_at", Now), "status", "waiting")
    IN  [store |-> [st EXCEPT !.tables = Append(@, table_record)],
         table_id |-> table_id]

\* list.remove(x): the list without its first element equal to x
ListRemove(list, x) ==
    IF \E n \in 1..Len(list) : list[n] = x
    THEN LET first == CHOOSE n \in 1..Len(list) :
                         /\ list[n] = x
                         /\ \A m \in 1..(n - 1) : list[m] # x
         IN  SubSeq(list, 1, first - 1) \o SubSeq(list, first + 1, Len(list))
    ELSE list

\* update_table_status of the lobby store: the first table of the id gets
\* the status and, completed, moves from tables to history
update_table_status(st, table_id, status) ==
    IF \E n \in 1..Len(st.tables) : st.tables[n]["id"] = table_id
    THEN LET n == CHOOSE k \in 1..Len(st.tables) :
                     /\ st.tables[k]["id"] = table_id
                     /\ \A m \in 1..(k - 1) : st.tables[m]["id"] # table_id
             updated == DictSet(st.tables[n], "status", status)
             marked == [st.tables EXCEPT ![n] = updated]
         IN  IF status = "completed"
             THEN [st EXCEPT !.history = Append(@, updated),
                             !.tables = ListRemove(marked, updated)]
             ELSE [st EXCEPT !.tables = marked]
    ELSE st

\* database_wiring.py, create_game_store: the store before its first call
create_game_store == [games |-> <<>>, statistics |-> EmptyDict, active_games |-> EmptyDict]

\* the statistics after the players of a saved game are counted, one by one
RECURSIVE update_statistics(_, _)
update_statistics(statistics, players) ==
    IF players = <<>>
    THEN statistics
    ELSE LET player == Head(players)
             stats == DictGet(statistics, player.name,
                              [games_played |-> 0, wins |-> 0, total_score |-> 0])
             counted == [games_played |-> stats.games_played + 1,
                         wins |-> stats.wins
                                    + (IF DictGet(player, "winner", FALSE) THEN 1 ELSE 0),
                         total_score |-> stats.total_score + DictGet(player, "score", 0)]
         IN  update_statistics(DictSet(statistics, player.name, counted),
                               Tail(players))

\* save_game of the game store
save_game(gs, game_data) ==
    LET game_record ==
            DictSet(DictSet(game_data, "timestamp", Now),
                    "id", "game_" \o ToString(Len(gs.games)))
    IN  [gs EXCEPT !.games = Append(@, game_record),
                   !.statistics = update_statistics(@, DictGet(game_data, "players", <<>>))]

\* {k: v for k, v in d.items() if k != key}: del d[key]
DictDel(d, key) == [k \in DOMAIN d \ {key} |-> d[k]]

\* socket_server['api']['broadcast_message'](msg_type, payload): the server
\* dict of create_server has no 'api' key, so the subscript raises KeyError
api_broadcast_message(srv, msg_type, payload) ==
    IF "api" \notin DOMAIN srv
    THEN [error |-> "KeyError", sent |-> <<>>]
    ELSE [error |-> None, sent |-> <<Message(msg_type, payload, srv.clients)>>]

\* handle_game_end of the service: st holds the game store and the
\* active_games of the service
handle_game_end(st, srv, game_id, game_data) ==
    LET saved == save_game(st.game_store, DictSet(game_data, "completed_at", Now))
        cleaned == IF game_id \in DOMAIN st.active_games
                   THEN DictDel(st.active_games, game_id)
                   ELSE st.active_games
        cast == api_broadcast_message(srv, "game_result", game_data)
    IN  [store |-> [game_store |-> saved, active_games |-> cleaned],
         error |-> cast.error, sent |-> cast.sent]

\* handle_game_action of the service
handle_game_action(st, srv, game_id, action_data) ==
    IF game_id \notin DOMAIN st.active_games
    THEN [store |-> st, error |-> None, sent |-> <<>>]
    ELSE LET game_ == DictSet(st.active_games[game_id], "last_action", action_data)
             acted == [st EXCEPT !.active_games = DictSet(@, game_id, game_)]
         IN  IF DictGet(action_data, "type", None) = "game_over"
             THEN handle_game_end(acted, srv, game_id,
                      DictSet(DictSet(game_, "winner", DictGet(action_data, "winner", None)),
                              "final_score", DictGet(action_data, "score", None)))
             ELSE LET cast == api_broadcast_message(srv, "game_update",
                                  [game_id |-> game_id, state |-> game_])
                  IN  [store |-> acted, error |-> cast.error, sent |-> cast.sent]

\* a coroutine of the server: where it is suspended, the clients of the copy
\* of server['clients'] it still has to visit, and the exception it ended in
Coroutine(at, pending, error) == [pc |-> at, pending |-> pending, error |-> error]

\* the finally block of handle_client, up to its first suspension: the client
\* is removed if present and broadcast_lobby_status is called, which raises
\* RuntimeError when the server is not running and otherwise visits a copy of
\* the clients; raised is the exception the try block is left with
handle_client_finally(srv, client, raised) ==
    IF client \in srv.clients
    THEN LET removed == [srv EXCEPT !.clients = @ \ {client}]
         IN  IF ~removed.running
             THEN [server |-> removed,
                   handler |-> Coroutine("done", {}, "RuntimeError")]
             ELSE IF removed.clients = {}
             THEN [server |-> removed, handler |-> Coroutine("done", {}, raised)]
             ELSE [server |-> removed,
                   handler |-> Coroutine("broadcast", removed.clients, raised)]
    ELSE [server |-> srv, handler |-> Coroutine("done", {}, raised)]

\* the test of the while loop of handle_client and what follows it
handle_client_loop(srv, client) ==
    IF srv.running /\ client \in srv.clients
    THEN [server |-> srv, handler |-> Coroutine("recv", {}, None)]
    ELSE handle_client_finally(srv, client, None)

\* server['clients'].remove(client): KeyError when the client is absent
clients_remove(srv, client) ==
    IF client \in srv.clients
    THEN [error |-> None, server |-> [srv EXCEPT !.clients = @ \ {client}]]
    ELSE [error |-> "KeyError", server |-> srv]

\* stop_server up to its first suspension
stop_server(srv) ==
    IF ~srv.running
    THEN [server |-> srv, stop |-> Coroutine("done", {}, None)]
    ELSE LET stopped == [srv EXCEPT !.running = FALSE]
         IN  IF stopped.clients = {}
             THEN [server |-> stopped, stop |-> Coroutine("done", {}, None)]
             ELSE [server |-> stopped,
                   stop |-> Coroutine("closing", stopped.clients, None)]

\* handle_add_player_to_table and handle_start_table: the (new_state, _,
\* updated_table) of a success is returned as (new_state, updated_table)
handle_add_player_to_table(status, t, player_name) ==
    LET out == add_player_to_table(status, t, player_name)
    IN  IF out[1]
        THEN create_result(TRUE, <<out[2][1], out[2][3]>>, None)
        ELSE out

handle_start_table(status, t) ==
    LET out == start_table(status, t)
    IN  IF out[1]
        THEN create_result(TRUE, <<out[2][1], out[2][3]>>, None)
        ELSE out

\* next((t for t in tables if t["tablename"] == table_name), None), as the
\* index of the table, 0 for None
FindTable(tables, table_name) ==
    IF \E j \in 1..Len(tables) : tables[j]["tablename"] = table_name
    THEN CHOOSE j \in 1..Len(tables) :
            /\ tables[j]["tablename"] = table_name
            /\ \A k \in 1..(j - 1) : tables[k]["tablename"] # table_name
    ELSE 0

\* the pure handler a state-changing branch of handle_client_message calls
\* on the lobby it has read; n is the number login_player draws
handle_message(current_state, data, n) ==
    IF data.type = "player_connect"
    THEN login_player(current_state, data.payload.name, n)
    ELSE IF data.type = "create_table"
    THEN handle_create_table(current_state, data.payload.name, data.payload.rounds)
    ELSE LET j == FindTable(current_state.tables, data.payload.table_name)
         IN  IF j = 0
             THEN create_result(FALSE, None, "Table not found")
             ELSE IF data.type = "join_table"
             THEN handle_add_player_to_table(current_state, current_state.tables[j],
                                             data.payload.player_token)
             ELSE handle_start_table(current_state, current_state.tables[j])

\* next(p for p in current_state["players"] if isinstance(p, dict) and
\* p["uuid"] == player_token) finds a player
HasPlayer(players, player_token) ==
    \E j \in 1..Len(players) :
        IsDict(players[j]) /\ players[j].uuid = player_token.str

FindPlayer(players, player_token) ==
    players[CHOOSE j \in 1..Len(players) :
                /\ IsDict(players[j]) /\ players[j].uuid = player_token.str
                /\ \A k \in 1..(j - 1) :
                      ~(IsDict(players[k]) /\ players[k].uuid = player_token.str)]

\* the start_table branch after set_server_lobby: the game state is built
\* from the players of the lobby that was read and stored in updated_table,
\* the dict that new_state holds for every table of that name; a token that
\* is no uuid of a player ends the generator in a RuntimeError
start_table_game_dict(current_state, new_state, updated_table) ==
    IF \A j \in 1..Len(updated_table["players"]) :
           HasPlayer(current_state.players, updated_table["players"][j])
    THEN LET game_state_ == create_initial_game_state(
                 [j \in 1..Len(updated_table["players"]) |->
                     FindPlayer(current_state.players, updated_table["players"][j])])
         IN  [error |-> None,
              lobby |-> [new_state EXCEPT !.tables =
                            ReplaceTable(@, updated_table,
                                DictSet(updated_table, "game_dict", game_state_))]]
    ELSE [error |-> "RuntimeError", lobby |-> new_state]

\* the statements of a state-changing branch of handle_client_message, and
\* the one that follows each
NextStatement(statement) ==
    CASE statement = "get_server_lobby" -> "handle"
      [] statement = "handle" -> "set_server_lobby"
      [] statement = "set_server_lobby" -> "reply"
      [] statement = "reply" -> "return"

\* a branch that suspends between its handler and set_server_lobby too
AwaitsAt_BeforeWrite(statement) == statement \in {"set_server_lobby", "reply"}

\* the statements at which the coroutine is suspended: the awaits of
\* send_message and broadcast_lobby_status after the lobby is written
AwaitsAt(statement) == statement = "reply"

\* the coroutine of handle_client_message for one message
MessageCoroutine(at, data, n, current_state, result_, error) ==
    [pc |-> at, data |-> data, n |-> n, current_state |-> current_state,
     result |-> result_, error |-> error]

\* no message is being handled: handle_client awaits recv
AwaitingRecv ==
    MessageCoroutine("recv", EmptyDict, 0, EmptyDict,
                     create_result(FALSE, None, None), None)

\* one statement of the branch on the server lobby lob
exec_statement(lob, co) ==
    CASE co.pc = "get_server_lobby" ->
            [lobby |-> lob, co |-> [co EXCEPT !.current_state = lob]]
      [] co.pc = "handle" ->
            [lobby |-> lob,
             co |-> [co EXCEPT !.result = handle_message(co.current_state, co.data, co.n)]]
      [] co.pc = "set_server_lobby" ->
            IF ~co.result[1]
            THEN [lobby |-> lob, co |-> co]
            ELSE IF co.data.type = "start_table"
            THEN LET out == start_table_game_dict(co.current_state,
                                co.result[2][1], co.result[2][2])
                 IN  [lobby |-> out.lobby, co |-> [co EXCEPT !.error = out.error]]
            ELSE [lobby |-> co.result[2][1], co |-> co]
      [] co.pc = "reply" ->
            [lobby |-> lob, co |-> co]

\* the coroutine runs from its statement to its next suspension, to its
\* return or to the exception that ends it; resumed says that it was
\* suspended at its statement
RECURSIVE run_message(_, _, _)
run_message(lob, co, resumed) ==
    IF co.pc = "return" \/ co.error # None
    THEN [lobby |-> lob, co |-> co]
    ELSE IF AwaitsAt(co.pc) /\ ~resumed
    THEN [lobby |-> lob, co |-> co]
    ELSE LET out == exec_statement(lob, co)
         IN  run_message(out.lobby,
                         IF out.co.error # None
                         THEN out.co
                         ELSE [out.co EXCEPT !.pc = NextStatement(co.pc)],
                         FALSE)

\* no server is run
NoHost ==
    /\ held_tables = EmptyDict
    /\ server = create_server_state(0)
    /\ game_state = create_game_state
    /\ sent = <<>>
    /\ store = EmptyDict
    /\ tasks = EmptyDict

(***************************************************************************)
(* The tables handed to the engine                                         *)
(***************************************************************************)
NoGame == EmptyDict

\* the caller holds no table yet
NoTable == EmptyDict

\* no lobby handler has returned yet
NoResult == create_result(FALSE, None, None)

\* the engine is run without a lobby
NoLobby ==
    /\ lobby = create_empty_lobby
    /\ result = NoResult
    /\ requested = 0

\* {**table, "num_rounds": n}
WithNumRounds(t, n) ==
    [key \in DOMAIN t \cup {"num_rounds"} |->
        IF key = "num_rounds" THEN n ELSE t[key]]

\* four players seated, no round yet, status "waiting" (create_table) or
\* "playing" (start_table), the num_rounds key absent or set
InitialTables ==
    LET bare == {create_table("Test Table", TestPlayers, <<>>, status) :
                    status \in {"waiting", "playing"}}
    IN  bare \cup {WithNumRounds(t, n) : t \in bare, n \in 1..MaxNumRounds}

(***************************************************************************)
(* SpecRound: one call of gameflow, step by step                           *)
(***************************************************************************)
\* {**table, "players": players}
WithPlayers(t, players) == [t EXCEPT !["players"] = players]

InitRound ==
    /\ table \in InitialTables \cup
                 {WithPlayers(t, CollidingPlayers) : t \in InitialTables}
    /\ game = NoGame
    /\ pc = "gameflow"
    /\ trick_number = 0
    /\ op = "gameflow"
    /\ i = 0
    /\ num_iter = 0
    /\ arg = table
    /\ deck = <<>>
    /\ advances = 0
    /\ NoLobby
    /\ NoHost

\* gameflow line 96
CreateInitialGameState ==
    /\ pc = "gameflow"
    /\ game' = create_initial_game_state(table["players"])
    /\ pc' = "created"
    /\ UNCHANGED lobbyVars
    /\ UNCHANGED <<table, trick_number, op, i, num_iter, arg, deck, advances>>
    /\ UNCHANGED hostVars

\* gameflow line 97
AssignTeams ==
    /\ pc = "created"
    /\ \E pick \in TeamPicks(table["players"]) :
          game' = initial_state(table["players"], pick)
    /\ pc' = "teams"
    /\ UNCHANGED lobbyVars
    /\ UNCHANGED <<table, trick_number, op, i, num_iter, arg, deck, advances>>
    /\ UNCHANGED hostVars

InitializeGame ==
    /\ pc = "teams"
    /\ \E offset \in ShuffleOffsets, choice \in 1..Len(game.players) :
          /\ game' = initialize_game(game, offset, choice)
          /\ deck' = shuffle_cards(create_cards, offset)
    /\ pc' = "initialized"
    /\ UNCHANGED lobbyVars
    /\ UNCHANGED <<table, trick_number, op, i, num_iter, arg, advances>>
    /\ UNCHANGED hostVars

HandleVariantPhase ==
    /\ pc = "initialized"
    /\ game' = handle_variant_phase(game)
    /\ pc' = "variant"
    /\ UNCHANGED lobbyVars
    /\ UNCHANGED <<table, trick_number, op, i, num_iter, arg, deck, advances>>
    /\ UNCHANGED hostVars

PovertyPhase ==
    /\ pc = "variant"
    /\ game' = poverty_step(game)
    /\ pc' = "poverty"
    /\ UNCHANGED lobbyVars
    /\ UNCHANGED <<table, trick_number, op, i, num_iter, arg, deck, advances>>
    /\ UNCHANGED hostVars

\* play_all_tricks: the initial value of its reduce
PlayAllTricks ==
    /\ pc = "poverty"
    /\ game' = [game EXCEPT !.phase = "playing"]
    /\ trick_number' = 0
    /\ pc' = "playing"
    /\ UNCHANGED lobbyVars
    /\ UNCHANGED <<table, op, i, num_iter, arg, deck, advances>>
    /\ UNCHANGED hostVars

\* play_all_tricks: one step of its reduce
PlayTrick ==
    /\ pc = "playing"
    /\ trick_number < NumTricks
    /\ game' = play_trick(game, trick_number)
    /\ trick_number' = trick_number + 1
    /\ UNCHANGED lobbyVars
    /\ UNCHANGED <<table, pc, op, i, num_iter, arg, deck, advances>>
    /\ UNCHANGED hostVars

FinalizeGame ==
    /\ pc = "playing"
    /\ trick_number = NumTricks
    /\ game' = finalize_game(game)
    /\ pc' = "finalized"
    /\ UNCHANGED lobbyVars
    /\ UNCHANGED <<table, trick_number, op, i, num_iter, arg, deck, advances>>
    /\ UNCHANGED hostVars

\* gameflow line 99
CreateUpdatedTable ==
    /\ pc = "finalized"
    /\ table' = create_updated_table(table, game)
    /\ advances' = advances + 1
    /\ pc' = "returned"
    /\ UNCHANGED lobbyVars
    /\ UNCHANGED <<game, trick_number, op, i, num_iter, arg, deck>>
    /\ UNCHANGED hostVars

NextRound ==
    \/ CreateInitialGameState
    \/ AssignTeams
    \/ InitializeGame
    \/ HandleVariantPhase
    \/ PovertyPhase
    \/ PlayAllTricks
    \/ PlayTrick
    \/ FinalizeGame
    \/ CreateUpdatedTable

SpecRound == InitRound /\ [][NextRound]_vars

(***************************************************************************)
(* SpecTable: calls of gameflow, play_round and play_table_rounds on one   *)
(* table, each call of gameflow and play_round in one step                 *)
(***************************************************************************)
InitTable ==
    /\ table \in InitialTables
    /\ game = NoGame
    /\ pc = "idle"
    /\ trick_number = 0
    /\ op = "none"
    /\ i = 0
    /\ num_iter = 0
    /\ arg = table
    /\ deck = <<>>
    /\ advances = 0
    /\ NoLobby
    /\ NoHost

Ready == pc \in {"idle", "returned"}

\* play_round draws nothing on a closed table
DrawsOfPlayRound(t) ==
    IF t["status"] = "closed"
    THEN {CHOOSE d \in Draws(t["players"]) : TRUE}
    ELSE Draws(t["players"])

\* number of rounds a call appends
Played(t, u) == Len(u["rounds"]) - Len(t["rounds"])

Gameflow ==
    /\ Ready
    /\ Len(table["rounds"]) < MaxRounds
    /\ \E d \in Draws(table["players"]) :
          table' = gameflow(table, d)
    /\ advances' = advances + 1
    /\ op' = "gameflow"
    /\ arg' = table
    /\ pc' = "returned"
    /\ UNCHANGED lobbyVars
    /\ UNCHANGED <<game, trick_number, i, num_iter, deck>>
    /\ UNCHANGED hostVars

PlayRound ==
    /\ Ready
    /\ table["status"] = "closed" \/ Len(table["rounds"]) < MaxRounds
    /\ \E d \in DrawsOfPlayRound(table) :
          table' = play_round(table, d)
    /\ advances' = advances + Played(table, table')
    /\ op' = "play_round"
    /\ arg' = table
    /\ pc' = "returned"
    /\ UNCHANGED lobbyVars
    /\ UNCHANGED <<game, trick_number, i, num_iter, deck>>
    /\ UNCHANGED hostVars

\* play_table_rounds: range(table.get("num_rounds", 1)) is evaluated
PlayTableRounds ==
    /\ Ready
    /\ op' = "play_table_rounds"
    /\ arg' = table
    /\ i' = 0
    /\ num_iter' = play_table_rounds_range(table)
    /\ pc' = "reduce"
    /\ UNCHANGED lobbyVars
    /\ UNCHANGED <<table, game, trick_number, deck, advances>>
    /\ UNCHANGED hostVars

\* play_table_rounds: one step of its reduce
PlayTableRoundsStep ==
    /\ pc = "reduce"
    /\ i < num_iter
    /\ table["status"] = "closed" \/ Len(table["rounds"]) < MaxRounds
    /\ \E d \in DrawsOfPlayRound(table) :
          table' = play_round(table, d)
    /\ advances' = advances + Played(table, table')
    /\ i' = i + 1
    /\ UNCHANGED lobbyVars
    /\ UNCHANGED <<game, pc, trick_number, op, num_iter, arg, deck>>
    /\ UNCHANGED hostVars

PlayTableRoundsReturn ==
    /\ pc = "reduce"
    /\ i = num_iter
    /\ pc' = "returned"
    /\ i' = 0
    /\ num_iter' = 0
    /\ UNCHANGED lobbyVars
    /\ UNCHANGED <<table, game, trick_number, op, arg, deck, advances>>
    /\ UNCHANGED hostVars

NextTable ==
    \/ Gameflow
    \/ PlayRound
    \/ PlayTableRounds
    \/ PlayTableRoundsStep
    \/ PlayTableRoundsReturn

SpecTable == InitTable /\ [][NextTable]_vars

\* play_table_rounds is a synchronous call: once started it runs to its return
FairSpecTable ==
    SpecTable /\ WF_vars(PlayTableRoundsStep) /\ WF_vars(PlayTableRoundsReturn)

(***************************************************************************)
(* SpecLogin: connect_player and login_player on one lobby                 *)
(***************************************************************************)
\* the lobby holds at most this many entries in its players
MaxLobbyPlayers == 4

\* the names asked for at login, and the numbers random.randint may draw
Names == {"Player1", "Player2", "Player3", "Player4"}
RandomNumbers == {10000, 10001, 54321, 99999}
ConnectTokens == {"", "test_token_1"}

\* the engine is not run
NoEngine ==
    /\ table = NoTable
    /\ game = NoGame
    /\ pc = "lobby"
    /\ trick_number = 0
    /\ op = "none"
    /\ i = 0
    /\ num_iter = 0
    /\ arg = NoTable
    /\ deck = <<>>
    /\ advances = 0

InitLogin ==
    /\ NoEngine
    /\ NoLobby
    /\ NoHost

\* lobby_state = result[1] after a success, as the tests take it
ConnectPlayer ==
    /\ pc = "lobby"
    /\ Len(lobby.players) < MaxLobbyPlayers
    /\ \E token \in ConnectTokens :
          /\ result' = connect_player(lobby, token)
          /\ arg' = [status |-> lobby, token |-> token]
    /\ lobby' = IF result'[1] THEN result'[2] ELSE lobby
    /\ op' = "connect_player"
    /\ UNCHANGED <<table, game, pc, trick_number, i, num_iter, deck, advances,
                   requested>>
    /\ UNCHANGED hostVars

\* lobby_state, player = result[1] after a success
LoginPlayer ==
    /\ pc = "lobby"
    /\ Len(lobby.players) < MaxLobbyPlayers
    /\ \E name \in Names \cup {""}, n \in RandomNumbers :
          /\ result' = login_player(lobby, name, n)
          /\ arg' = [status |-> lobby, name |-> name]
    /\ lobby' = IF result'[1] THEN result'[2][1] ELSE lobby
    /\ op' = "login_player"
    /\ UNCHANGED <<table, game, pc, trick_number, i, num_iter, deck, advances,
                   requested>>
    /\ UNCHANGED hostVars

NextLogin ==
    \/ ConnectPlayer
    \/ LoginPlayer

SpecLogin == InitLogin /\ [][NextLogin]_vars

(***************************************************************************)
(* SpecLobby: one caller creates one table in a lobby of four logged-in    *)
(* players, seats players, starts the table and advances it                *)
(***************************************************************************)
TableNames == {"", "TestTable"}

\* the names the caller asks add_player_to_table to seat
SeatNames == {"Player1", "Player2"}

InitLobby ==
    /\ NoEngine
    /\ lobby = create_lobby_status(LobbyPlayers, <<>>)
    /\ result = NoResult
    /\ requested = 0
    /\ NoHost

\* the draws of the random module in a round played from the lobby
LobbyDraws(players) == {d \in Draws(players) : d.choice = 1}

\* the caller holds a table
HoldsTable == pc = "lobby" /\ table # NoTable

\* lobby_state, table = result[1] after a success; the caller goes on with
\* the first table it gets
CreateTable ==
    /\ pc = "lobby"
    /\ table = NoTable
    /\ \E name \in TableNames, rounds \in 0..MaxNumRounds :
          /\ result' = handle_create_table(lobby, name, rounds)
          /\ arg' = [status |-> lobby, name |-> name, rounds |-> rounds]
    /\ lobby' = IF result'[1] THEN result'[2][1] ELSE lobby
    /\ table' = IF result'[1] THEN result'[2][2] ELSE table
    /\ requested' = IF result'[1] THEN arg'.rounds ELSE requested
    /\ advances' = IF result'[1] THEN 0 ELSE advances
    /\ op' = "create_table"
    /\ UNCHANGED <<game, pc, trick_number, i, num_iter, deck>>
    /\ UNCHANGED hostVars

\* lobby_state, table = result[1] after a success of handle_add_player_to_table
AddPlayerToTable ==
    /\ HoldsTable
    /\ \E player_name \in SeatNames :
          /\ result' = add_player_to_table(lobby, table, player_name)
          /\ arg' = [status |-> lobby, table |-> table, player_name |-> player_name]
    /\ lobby' = IF result'[1] THEN result'[2][1] ELSE lobby
    /\ table' = IF result'[1] THEN result'[2][3] ELSE table
    /\ op' = "add_player_to_table"
    /\ UNCHANGED <<game, pc, trick_number, i, num_iter, deck, advances, requested>>
    /\ UNCHANGED hostVars

\* table = dict(table); table["players"] = tuple(p for p in players), with
\* players the players the logins returned
SeatPlayers ==
    /\ HoldsTable
    /\ op = "create_table"
    /\ result[1]
    /\ table' = DictSet(table, "players", SelectSeq(lobby.players, IsDict))
    /\ arg' = [table |-> table]
    /\ op' = "seat_players"
    /\ UNCHANGED <<game, pc, trick_number, i, num_iter, deck, advances, lobby,
                   result, requested>>
    /\ UNCHANGED hostVars

\* lobby_state, table = result[1] after a success of handle_start_table
StartTable ==
    /\ HoldsTable
    /\ result' = start_table(lobby, table)
    /\ arg' = [status |-> lobby, table |-> table]
    /\ lobby' = IF result'[1] THEN result'[2][1] ELSE lobby
    /\ table' = IF result'[1] THEN result'[2][3] ELSE table
    /\ advances' = IF result'[1] THEN 0 ELSE advances
    /\ op' = "start_table"
    /\ UNCHANGED <<game, pc, trick_number, i, num_iter, deck, requested>>
    /\ UNCHANGED hostVars

\* gameflow raises on a table whose players are not player dicts (p["uuid"]
\* of a str) or are fewer than the two random.sample is asked for
Raises(t) ==
    \/ \E j \in 1..Len(t["players"]) : ~IsDict(t["players"][j])
    \/ Len(t["players"]) < 2

\* updated_table = gameflow(table)
AdvanceGameflow ==
    /\ HoldsTable
    /\ Len(table["rounds"]) < MaxRounds
    /\ IF Raises(table)
       THEN /\ pc' = "raised"
            /\ UNCHANGED <<table, advances>>
       ELSE /\ \E d \in LobbyDraws(table["players"]) :
                  table' = gameflow(table, d)
            /\ advances' = advances + 1
            /\ pc' = pc
    /\ arg' = [table |-> table]
    /\ op' = "gameflow"
    /\ UNCHANGED <<game, trick_number, i, num_iter, deck, lobby, result, requested>>
    /\ UNCHANGED hostVars

\* updated_table = play_round(table, _)
AdvancePlayRound ==
    /\ HoldsTable
    /\ table["status"] = "closed" \/ Len(table["rounds"]) < MaxRounds
    /\ IF table["status"] # "closed" /\ Raises(table)
       THEN /\ pc' = "raised"
            /\ UNCHANGED <<table, advances>>
       ELSE /\ \E d \in (IF table["status"] = "closed"
                         THEN {0} ELSE LobbyDraws(table["players"])) :
                  table' = play_round(table, d)
            /\ advances' = advances + Played(table, table')
            /\ pc' = pc
    /\ arg' = [table |-> table]
    /\ op' = "play_round"
    /\ UNCHANGED <<game, trick_number, i, num_iter, deck, lobby, result, requested>>
    /\ UNCHANGED hostVars

NextLobby ==
    \/ CreateTable
    \/ AddPlayerToTable
    \/ SeatPlayers
    \/ StartTable
    \/ AdvanceGameflow
    \/ AdvancePlayRound

SpecLobby == InitLobby /\ [][NextLobby]_vars

(***************************************************************************)
(* SpecDeal: distribute_cards on decks and player lists of any size        *)
(***************************************************************************)
\* the decks dealt hold at most this many cards (and the deck of 40)
MaxDeckLen == 12
\* the player lists dealt to hold at most this many players
MaxDealPlayers == 5

\* the first n cards of a shuffled deck
DealDecks ==
    {SubSeq(shuffle_cards(create_cards, offset), 1, n) :
        offset \in ShuffleOffsets,
        n \in (0..Min(MaxDeckLen, Len(create_cards))) \cup {Len(create_cards)}}

\* k players of distinct uuids, and the four of whom two share a uuid
DealPlayers ==
    {[j \in 1..k |-> create_player("", "Player", "", Token(j))] :
        k \in 0..MaxDealPlayers} \cup {TestPlayers, CollidingPlayers}

\* what a call of distribute_cards comes to: it has no raise statement, its
\* division is guarded by the test of the empty player list, so it returns
DealOutcome(cards, players) ==
    [error |-> None, hands |-> distribute_cards(cards, players)]

InitDeal ==
    /\ NoLobby
    /\ table = NoTable
    /\ game = NoGame
    /\ pc = "deal"
    /\ trick_number = 0
    /\ op = "none"
    /\ i = 0
    /\ num_iter = 0
    /\ arg \in DealPlayers
    /\ deck \in DealDecks
    /\ advances = 0
    /\ NoHost

\* hands = distribute_cards(deck, players)
Deal ==
    /\ pc = "deal"
    /\ result' = DealOutcome(deck, arg)
    /\ pc' = "dealt"
    /\ op' = "distribute_cards"
    /\ UNCHANGED <<table, game, trick_number, i, num_iter, arg, deck, advances,
                   lobby, requested>>
    /\ UNCHANGED hostVars

NextDeal == Deal

SpecDeal == InitDeal /\ [][NextDeal]_vars

(***************************************************************************)
(* SpecSeats: one call of gameflow, step by step, on a table of any number *)
(* of players                                                              *)
(***************************************************************************)
\* a table as create_table builds it, seating each of the player lists
SeatTables ==
    {create_table("Test Table", players, <<>>, "waiting") : players \in DealPlayers}

InitSeats ==
    /\ table \in SeatTables
    /\ game = NoGame
    /\ pc = "gameflow"
    /\ trick_number = 0
    /\ op = "gameflow"
    /\ i = 0
    /\ num_iter = 0
    /\ arg = table
    /\ deck = <<>>
    /\ advances = 0
    /\ NoLobby
    /\ NoHost

\* gameflow line 97 on fewer than two players: random.sample(player_uuids, 2)
\* raises ValueError, which leaves gameflow; the caller keeps its table
AssignTeamsRaises ==
    /\ pc = "created"
    /\ TeamPicks(table["players"]) = {}
    /\ pc' = "raised"
    /\ UNCHANGED lobbyVars
    /\ UNCHANGED hostVars
    /\ UNCHANGED <<table, game, trick_number, op, i, num_iter, arg, deck, advances>>

NextSeats ==
    \/ NextRound
    \/ AssignTeamsRaises

SpecSeats == InitSeats /\ [][NextSeats]_vars

(***************************************************************************)
(* SpecWire: the handlers of the game server and the card prompt of the    *)
(* terminal, called one after the other                                    *)
(***************************************************************************)
\* a call is made only while game_state['players'] is shorter than this
MaxWirePlayers == 2
\* a call is made only while fewer messages than this have been broadcast
MaxSent == 2

\* the websockets connected to the server
WireClients == {"client1", "client2"}

\* the payloads of a 'player_connect' and of a 'player_action' message
ConnectPayloads == [name : {"", "Player1", "Player2"}]
ActionPayloads ==
    [action : {"", "play_card"}, player : {"", "Player1", "Player2"}]
        \cup {EmptyDict}

\* the rounds the terminal prompts for a card in: dealt by initialize_game,
\* led by the first or by the last player
WireGames ==
    {initialize_game(initial_state(TestPlayers, {1, 2}), offset, choice) :
        offset \in TableShuffleOffsets, choice \in {1, Len(TestPlayers)}}

InitWire ==
    /\ NoLobby
    /\ table = NoTable
    /\ game \in WireGames
    /\ pc = "serving"
    /\ trick_number = 0
    /\ op = "none"
    /\ i = 0
    /\ num_iter = 0
    /\ arg = EmptyDict
    /\ deck = <<>>
    /\ advances = 0
    /\ held_tables = EmptyDict
    /\ \E running \in BOOLEAN, clients \in SUBSET WireClients :
          server = [create_server_state(0) EXCEPT !.running = running,
                                                  !.clients = clients]
    /\ game_state = create_game_state
    /\ sent = <<>>
    /\ store = EmptyDict
    /\ tasks = EmptyDict

CanServe ==
    /\ pc = "serving"
    /\ Len(game_state.players) < MaxWirePlayers
    /\ Len(sent) < MaxSent

\* await handlers['player_connect'](server, client, payload)
HandlePlayerConnect ==
    /\ CanServe
    /\ \E payload \in ConnectPayloads, failing \in SUBSET server.clients :
          LET out == handle_player_connect(server, game_state, payload, failing)
          IN  /\ server' = out.server
              /\ game_state' = out.game_state
              /\ sent' = sent \o out.sent
              /\ result' = Outcome(out.error, <<>>)
              /\ arg' = payload
    /\ op' = "player_connect"
    /\ UNCHANGED <<table, game, pc, trick_number, i, num_iter, deck, advances,
                   lobby, requested, held_tables, store, tasks>>

\* await handlers['player_action'](server, client, payload)
HandlePlayerAction ==
    /\ CanServe
    /\ \E payload \in ActionPayloads, failing \in SUBSET server.clients :
          LET out == handle_player_action(server, game_state, payload, failing)
          IN  /\ server' = out.server
              /\ game_state' = out.game_state
              /\ sent' = sent \o out.sent
              /\ result' = Outcome(out.error, <<>>)
              /\ arg' = payload
    /\ op' = "player_action"
    /\ UNCHANGED <<table, game, pc, trick_number, i, num_iter, deck, advances,
                   lobby, requested, held_tables, store, tasks>>

\* card = handle_card_play(game, player_token)
HandleCardPlay ==
    /\ pc = "serving"
    /\ \E player_token \in UuidSet(game.players) :
          \E choice \in {1, Len(game.cards[player_token])} :
             /\ result' = handle_card_play(game, player_token, choice)
             /\ arg' = [player_token |-> player_token]
    /\ op' = "card_play"
    /\ UNCHANGED <<table, game, pc, trick_number, i, num_iter, deck, advances,
                   lobby, requested>>
    /\ UNCHANGED hostVars

NextWire ==
    \/ HandlePlayerConnect
    \/ HandlePlayerAction
    \/ HandleCardPlay

SpecWire == InitWire /\ [][NextWire]_vars

(***************************************************************************)
(* SpecPair: a caller that holds two tables and advances them with         *)
(* gameflow in any order                                                   *)
(***************************************************************************)
TableIds == {"A", "B"}

\* the draws of a round of one of the two tables: the first two players
\* drawn for "re", the first or the last player drawn to lead
PairDraws(players) == {d \in Draws(players) : d.pick = {1, 2}}

\* the table a caller creates for id x, the num_rounds key absent or set
PairTables(x) ==
    LET bare == create_table("Table " \o x, TestPlayers, <<>>, "waiting")
    IN  {bare} \cup {WithNumRounds(bare, n) : n \in 1..MaxNumRounds}

\* held[x] = gameflow(held[x]) with the other table advanced as well, as if
\* the rounds of the tables were one shared list
advance_table_SharedRounds(held, x, d) ==
    LET updated_table == gameflow(held[x], d)
    IN  [y \in DOMAIN held |->
            IF y = x THEN updated_table
            ELSE [held[y] EXCEPT !["rounds"] = updated_table["rounds"]]]

\* held[x] = gameflow(held[x]): gameflow builds a new table and leaves its
\* argument and every other value alone
advance_table(held, x, d) ==
    [held EXCEPT ![x] = gameflow(held[x], d)]

InitPair ==
    /\ NoLobby
    /\ table = NoTable
    /\ game = NoGame
    /\ pc = "holding"
    /\ trick_number = 0
    /\ op = "none"
    /\ i = 0
    /\ num_iter = 0
    /\ held_tables \in [TableIds -> UNION {PairTables(x) : x \in TableIds}]
    /\ \A x \in TableIds : held_tables[x] \in PairTables(x)
    /\ arg = held_tables
    /\ deck = <<>>
    /\ advances = [x \in TableIds |-> 0]
    /\ server = create_server_state(0)
    /\ game_state = create_game_state
    /\ sent = <<>>
    /\ store = EmptyDict
    /\ tasks = EmptyDict

\* held_tables[x] = gameflow(held_tables[x])
AdvanceTable(x) ==
    /\ pc = "holding"
    /\ Len(held_tables[x]["rounds"]) < MaxRounds
    /\ \E d \in PairDraws(held_tables[x]["players"]) :
          held_tables' = advance_table(held_tables, x, d)
    /\ advances' = [advances EXCEPT ![x] = @ + 1]
    /\ op' = "gameflow"
    /\ UNCHANGED lobbyVars
    /\ UNCHANGED <<table, game, pc, trick_number, i, num_iter, arg, deck,
                   server, game_state, sent, store, tasks>>

NextPair == \E x \in TableIds : AdvanceTable(x)

SpecPair == InitPair /\ [][NextPair]_vars

(***************************************************************************)
(* SpecHall: a lobby of several tables; the caller passes the handlers a   *)
(* table of the lobby state it holds                                       *)
(***************************************************************************)
\* create_table is called only while the lobby holds fewer tables than this
MaxTables == 2

\* the names the caller gives its tables
HallNames == {"TestTable", "SecondTable"}

InitHall ==
    /\ NoEngine
    /\ lobby = create_lobby_status(LobbyPlayers, <<>>)
    /\ result = NoResult
    /\ requested = 0
    /\ NoHost

\* lobby_state, table = result[1] after a success of handle_create_table
HallCreateTable ==
    /\ pc = "lobby"
    /\ Len(lobby.tables) < MaxTables
    /\ \E name \in HallNames :
          /\ result' = handle_create_table(lobby, name, 1)
          /\ arg' = [status |-> lobby, name |-> name]
    /\ lobby' = IF result'[1] THEN result'[2][1] ELSE lobby
    /\ op' = "create_table"
    /\ UNCHANGED <<table, game, pc, trick_number, i, num_iter, deck, advances,
                   requested>>
    /\ UNCHANGED hostVars

\* handle_add_player_to_table(lobby_state, table, name) on table number j of
\* lobby_state["tables"]
HallAddPlayerToTable ==
    /\ pc = "lobby"
    /\ \E j \in 1..Len(lobby.tables), player_name \in SeatNames :
          /\ result' = add_player_to_table(lobby, lobby.tables[j], player_name)
          /\ arg' = [status |-> lobby, index |-> j, player_name |-> player_name]
    /\ lobby' = IF result'[1] THEN result'[2][1] ELSE lobby
    /\ op' = "add_player_to_table"
    /\ UNCHANGED <<table, game, pc, trick_number, i, num_iter, deck, advances,
                   requested>>
    /\ UNCHANGED hostVars

\* handle_start_table(lobby_state, table) on table number j of
\* lobby_state["tables"]
HallStartTable ==
    /\ pc = "lobby"
    /\ \E j \in 1..Len(lobby.tables) :
          /\ result' = start_table(lobby, lobby.tables[j])
          /\ arg' = [status |-> lobby, index |-> j]
    /\ lobby' = IF result'[1] THEN result'[2][1] ELSE lobby
    /\ op' = "start_table"
    /\ UNCHANGED <<table, game, pc, trick_number, i, num_iter, deck, advances,
                   requested>>
    /\ UNCHANGED hostVars

NextHall ==
    \/ HallCreateTable
    \/ HallAddPlayerToTable
    \/ HallStartTable

SpecHall == InitHall /\ [][NextHall]_vars

(***************************************************************************)
(* SpecStore: the lobby store of database_wiring.py, its create_table and  *)
(* update_table_status called one after the other                          *)
(***************************************************************************)
\* create_table is called only while the store has recorded fewer tables
\* than this, the ones moved to history included
MaxStoreTables == 3

\* the table data and the ids and statuses the callers pass
StoreTableData == {[name |-> name] : name \in HallNames}
StoreTableIds == {"table_" \o ToString(n) : n \in 0..MaxStoreTables}
StoreStatuses == {"waiting", "playing", "completed"}

InitStore ==
    /\ NoEngine
    /\ NoLobby
    /\ held_tables = EmptyDict
    /\ server = create_server_state(0)
    /\ game_state = create_game_state
    /\ sent = <<>>
    /\ store = create_lobby_store
    /\ tasks = EmptyDict

\* table_id = store['api']['create_table'](table_data)
StoreCreateTable ==
    /\ Len(store.tables) + Len(store.history) < MaxStoreTables
    /\ \E table_data \in StoreTableData :
          LET out == lobby_store_create_table(store, table_data)
          IN  /\ store' = out.store
              /\ result' = Outcome(None, <<out.table_id>>)
              /\ arg' = [store |-> store, table_data |-> table_data]
    /\ op' = "create_table"
    /\ UNCHANGED <<table, game, pc, trick_number, i, num_iter, deck, advances,
                   lobby, requested, held_tables, server, game_state, sent, tasks>>

\* store['api']['update_table_status'](table_id, status)
StoreUpdateTableStatus ==
    /\ \E table_id \in StoreTableIds, status \in StoreStatuses :
          /\ store' = update_table_status(store, table_id, status)
          /\ arg' = [store |-> store, table_id |-> table_id, status |-> status]
    /\ result' = Outcome(None, <<>>)
    /\ op' = "update_table_status"
    /\ UNCHANGED <<table, game, pc, trick_number, i, num_iter, deck, advances,
                   lobby, requested, held_tables, server, game_state, sent, tasks>>

NextStore ==
    \/ StoreCreateTable
    \/ StoreUpdateTableStatus

SpecStore == InitStore /\ [][NextStore]_vars

(***************************************************************************)
(* SpecService: the handlers of service_wiring.py over the game store, the *)
(* active games of the service and the server wire_service is given        *)
(***************************************************************************)
\* the ids of the games the callers name
ServiceGameIds == {"game_a", "game_b", "game_c"}

\* a game as a caller registers it in service['active_games']
ServiceGame ==
    [players |-> <<[name |-> "Player1", winner |-> TRUE, score |-> 2],
                   [name |-> "Player2", winner |-> FALSE, score |-> 0]>>]

\* the action_data of handle_game_action
ServiceActions ==
    {[type |-> "play_card", card |-> "Q-C"],
     [type |-> "game_over", winner |-> "RE", score |-> 2],
     [type |-> "game_over", winner |-> "KONTRA", score |-> 1]}

\* the socket_server wire_service is given: the server create_server
\* returns, and a server that carries the 'api' the handlers subscript
ServiceServers ==
    {create_server_state(0),
     DictSet(create_server_state(0), "api",
             [broadcast_message |-> "broadcast_message"])}

InitService ==
    /\ NoEngine
    /\ NoLobby
    /\ held_tables = EmptyDict
    /\ server \in ServiceServers
    /\ game_state = create_game_state
    /\ sent = <<>>
    /\ \E registered \in SUBSET ServiceGameIds :
          store = [game_store |-> create_game_store,
                   active_games |-> [game_id \in registered |-> ServiceGame]]
    /\ tasks = EmptyDict

\* await service['api']['handle_game_action'](game_id, action_data)
HandleGameAction ==
    /\ Len(sent) < MaxSent
    /\ \E game_id \in ServiceGameIds, action_data \in ServiceActions :
          LET out == handle_game_action(store, server, game_id, action_data)
          IN  /\ store' = out.store
              /\ sent' = sent \o out.sent
              /\ result' = Outcome(out.error, <<>>)
              /\ arg' = [store |-> store, game_id |-> game_id,
                         action_data |-> action_data]
    /\ op' = "handle_game_action"
    /\ UNCHANGED <<table, game, pc, trick_number, i, num_iter, deck, advances,
                   lobby, requested, held_tables, server, game_state, tasks>>

NextService ==
    \/ HandleGameAction

SpecService == InitService /\ [][NextService]_vars

(***************************************************************************)
(* SpecStop: a started server, the handle_client coroutine of each         *)
(* connection and stop_server, interleaved at their suspension points      *)
(***************************************************************************)
\* the number of connections the server accepts
MaxClients == 2

StopClients == 1..MaxClients

\* whether an awaited send or close returns or raises a WebSocketException
Awaited == {"returns", "raises"}

Handler(client) == tasks.handlers[client]

\* start_server has set running and serves; no connection is open yet
InitStop ==
    /\ NoEngine
    /\ NoLobby
    /\ held_tables = EmptyDict
    /\ server = [create_server_state(0) EXCEPT !.running = TRUE, !.task = "serve"]
    /\ game_state = create_game_state
    /\ sent = <<>>
    /\ store = EmptyDict
    /\ tasks = [handlers |-> [client \in StopClients |-> Coroutine("idle", {}, None)],
                stop |-> Coroutine("idle", {}, None)]

StopUnchanged ==
    UNCHANGED <<table, game, pc, trick_number, op, i, num_iter, arg, deck,
                advances, lobby, result, requested, held_tables, game_state,
                sent, store>>

\* handle_client is started for a new connection: the client is added and
\* the lobby status is being sent to it
HandleClientConnect(client) ==
    /\ Handler(client).pc = "idle"
    /\ tasks.stop.pc # "done"
    /\ server' = [server EXCEPT !.clients = @ \cup {client}]
    /\ tasks' = [tasks EXCEPT !.handlers[client] = Coroutine("greeting", {}, None)]
    /\ StopUnchanged

\* the send of the lobby status or of a reply ends; a WebSocketException of
\* the first send leaves handle_client outside its try block
HandleClientSent(client) ==
    /\ Handler(client).pc \in {"greeting", "replying"}
    /\ \E awaited \in Awaited :
          LET out == IF awaited = "returns"
                     THEN handle_client_loop(server, client)
                     ELSE IF Handler(client).pc = "greeting"
                     THEN [server |-> server,
                           handler |-> Coroutine("done", {}, "WebSocketException")]
                     ELSE handle_client_finally(server, client, None)
          IN  /\ server' = out.server
              /\ tasks' = [tasks EXCEPT !.handlers[client] = out.handler]
    /\ StopUnchanged

\* recv returns a message that is answered to the client alone
HandleClientMessage(client) ==
    /\ Handler(client).pc = "recv"
    /\ tasks' = [tasks EXCEPT !.handlers[client] = Coroutine("replying", {}, None)]
    /\ UNCHANGED server
    /\ StopUnchanged

\* recv returns a 'disconnect' message: the client is removed and its
\* connection is being closed
HandleClientDisconnect(client) ==
    /\ Handler(client).pc = "recv"
    /\ LET removed == clients_remove(server, client)
           out == IF removed.error = None
                  THEN [server |-> removed.server,
                        handler |-> Coroutine("closing", {}, None)]
                  ELSE handle_client_finally(server, client, removed.error)
       IN  /\ server' = out.server
           /\ tasks' = [tasks EXCEPT !.handlers[client] = out.handler]
    /\ StopUnchanged

\* the close of a 'disconnect' ends: a WebSocketException is not caught by
\* handle_client_message and ends the loop
HandleClientClosed(client) ==
    /\ Handler(client).pc = "closing"
    /\ \E awaited \in Awaited :
          LET out == IF awaited = "returns"
                     THEN handle_client_loop(server, client)
                     ELSE handle_client_finally(server, client, None)
          IN  /\ server' = out.server
              /\ tasks' = [tasks EXCEPT !.handlers[client] = out.handler]
    /\ StopUnchanged

\* recv raises a WebSocketException: the connection was closed
HandleClientRecvRaises(client) ==
    /\ Handler(client).pc = "recv"
    /\ LET out == handle_client_finally(server, client, None)
       IN  /\ server' = out.server
           /\ tasks' = [tasks EXCEPT !.handlers[client] = out.handler]
    /\ StopUnchanged

\* broadcast_message in the cleanup of handle_client: the send to one client
\* of the copy ends; when it raises, that client is removed and closed
HandleClientBroadcast(client) ==
    /\ Handler(client).pc = "broadcast"
    /\ \E to \in Handler(client).pending, awaited \in Awaited :
          LET rest == Handler(client).pending \ {to}
              raised == Handler(client).error
              removed == IF awaited = "returns"
                         THEN [error |-> None, server |-> server]
                         ELSE clients_remove(server, to)
              handler == IF removed.error # None
                         THEN Coroutine("done", {}, removed.error)
                         ELSE IF rest = {}
                         THEN Coroutine("done", {}, raised)
                         ELSE Coroutine("broadcast", rest, raised)
          IN  /\ server' = removed.server
              /\ tasks' = [tasks EXCEPT !.handlers[client] = handler]
    /\ StopUnchanged

\* stop_server is called
StopServer ==
    /\ tasks.stop.pc = "idle"
    /\ LET out == stop_server(server)
       IN  /\ server' = out.server
           /\ tasks' = [tasks EXCEPT !.stop = out.stop]
    /\ StopUnchanged

\* the close of one client of the copy ends, whether it returns or raises,
\* and stop_server removes the client
StopServerClosed ==
    /\ tasks.stop.pc = "closing"
    /\ \E client \in tasks.stop.pending :
          LET rest == tasks.stop.pending \ {client}
              removed == clients_remove(server, client)
              stop == IF removed.error # None
                      THEN Coroutine("failed", {}, removed.error)
                      ELSE IF rest = {}
                      THEN Coroutine("done", {}, None)
                      ELSE Coroutine("closing", rest, None)
          IN  /\ server' = removed.server
              /\ tasks' = [tasks EXCEPT !.stop = stop]
    /\ StopUnchanged

NextStop ==
    \/ \E client \in StopClients : HandleClientConnect(client)
    \/ \E client \in StopClients : HandleClientSent(client)
    \/ \E client \in StopClients : HandleClientMessage(client)
    \/ \E client \in StopClients : HandleClientDisconnect(client)
    \/ \E client \in StopClients : HandleClientClosed(client)
    \/ \E client \in StopClients : HandleClientRecvRaises(client)
    \/ \E client \in StopClients : HandleClientBroadcast(client)
    \/ StopServer
    \/ StopServerClosed

SpecStop == InitStop /\ [][NextStop]_vars

(***************************************************************************)
(* SpecMessages: the state-changing messages of several clients handled by *)
(* handle_client_message on the one server lobby, interleaved at the       *)
(* suspension points of the coroutines                                     *)
(***************************************************************************)
\* the number of messages the clients send in all
MaxMessages == 7

\* the connections whose messages are handled
MessageClients == {1, 2}

\* json.loads(message) of the messages the clients send
ClientMessages ==
    {[type |-> "player_connect", payload |-> [name |-> name]] :
        name \in {"Player1", "Player2"}}
    \cup {[type |-> "create_table", payload |-> [name |-> "TestTable", rounds |-> 1]]}
    \cup {[type |-> "join_table",
           payload |-> [table_name |-> "TestTable", player_token |-> Token(10000)]]}
    \cup {[type |-> "start_table", payload |-> [table_name |-> "TestTable"]]}

\* the numbers random.randint draws at the logins
MessageNumbers == {10000}

MessageTypes == {"player_connect", "create_table", "join_table", "start_table"}

\* tasks.handlers: the coroutine of each client; tasks.handled: how many
\* messages of each type were handled with success; tasks.received: how many
\* messages were received
InitMessages ==
    /\ NoEngine
    /\ lobby = create_empty_lobby
    /\ result = NoResult
    /\ requested = 0
    /\ held_tables = EmptyDict
    /\ server = [create_server_state(0) EXCEPT !.running = TRUE, !.task = "serve",
                                               !.clients = MessageClients]
    /\ game_state = create_game_state
    /\ sent = <<>>
    /\ store = EmptyDict
    /\ tasks = [handlers |-> [client \in MessageClients |-> AwaitingRecv],
                handled |-> [type \in MessageTypes |-> 0],
                received |-> 0]

MessagesUnchanged ==
    UNCHANGED <<table, game, pc, trick_number, op, i, num_iter, arg, deck,
                advances, result, requested, held_tables, server, game_state,
                sent, store>>

\* the coroutine of a client has run from statement at to co, and the lobby
\* to lob; the message is handled with success once set_server_lobby and
\* what follows it without suspension are done
MessageRan(client, at, lob, co, received) ==
    LET succeeded == /\ at # "reply"
                     /\ co.pc \in {"reply", "return"}
                     /\ co.error = None
                     /\ co.result[1]
        ended == IF co.error # None
                 THEN [co EXCEPT !.pc = "raised"]
                 ELSE IF co.pc = "return" THEN AwaitingRecv ELSE co
    IN  /\ lobby' = lob
        /\ tasks' = [tasks EXCEPT
                        !.handlers[client] = ended,
                        !.handled[co.data.type] = IF succeeded THEN @ + 1 ELSE @,
                        !.received = received]

\* message = await websocket.recv(): handle_client_message runs to its
\* first suspension
HandleClientMessageReceived(client) ==
    /\ tasks.handlers[client].pc = "recv"
    /\ tasks.received < MaxMessages
    /\ \E data \in ClientMessages, n \in MessageNumbers :
          LET out == run_message(lobby,
                         MessageCoroutine("get_server_lobby", data, n, EmptyDict,
                                          create_result(FALSE, None, None), None),
                         FALSE)
          IN  MessageRan(client, "get_server_lobby", out.lobby, out.co,
                         tasks.received + 1)
    /\ MessagesUnchanged

\* the awaited send or broadcast returns and the coroutine runs on
HandleClientMessageResumed(client) ==
    /\ tasks.handlers[client].pc \notin {"recv", "raised"}
    /\ LET out == run_message(lobby, tasks.handlers[client], TRUE)
       IN  MessageRan(client, tasks.handlers[client].pc, out.lobby, out.co,
                      tasks.received)
    /\ MessagesUnchanged

NextMessages ==
    \/ \E client \in MessageClients : HandleClientMessageReceived(client)
    \/ \E client \in MessageClients : HandleClientMessageResumed(client)

SpecMessages == InitMessages /\ [][NextMessages]_vars

(***************************************************************************)
(* Properties of one round (SpecRound)                                     *)
(***************************************************************************)
\* gameflow has built a round state
HasGame == pc # "gameflow"

\* the cards have been dealt
Dealt == pc \in {"initialized", "variant", "poverty", "playing", "finalized", "returned"}

\* the players of the table are four players of pairwise distinct uuids
FourDistinctPlayers ==
    /\ Len(table["players"]) = 4
    /\ Cardinality(UuidSet(table["players"])) = 4

RECURSIVE SumOver(_, _)
SumOver(f, S) ==
    IF S = {} THEN 0
    ELSE LET x == CHOOSE y \in S : TRUE IN f[x] + SumOver(f, S \ {x})

\* number of cards in the hands of round g
CardsInHands(g) ==
    SumOver([uuid \in DOMAIN g.cards |-> Len(g.cards[uuid])], DOMAIN g.cards)

\* number of cards recorded in the tricks of round g
CardsInTricks(g) == SumSeq([t \in 1..Len(g.tricks) |-> Len(g.tricks[t])])

\* C1 as stated: at every point of a round of four players, from
\* create_initial_game_state on, the cards in all hands plus the cards in the
\* recorded tricks are 40.
C1_ConservationFromCreation ==
    (HasGame /\ FourDistinctPlayers) =>
        CardsInHands(game) + CardsInTricks(game) = 40

\* C1 amended: in a round of four players of distinct uuids, the round state
\* made by create_initial_game_state (and by line 97 of gameflow) holds no
\* card at all; from initialize_game on, after every play_trick step and after
\* finalize_game, the cards in all hands plus the cards in the recorded tricks
\* are 40.
C1_ConservationFromDeal ==
    FourDistinctPlayers =>
        /\ pc \in {"created", "teams"} =>
              CardsInHands(game) + CardsInTricks(game) = 0
        /\ Dealt => CardsInHands(game) + CardsInTricks(game) = 40

C1_Witness ==
    /\ FourDistinctPlayers
    /\ pc = "playing"
    /\ trick_number = 4
    /\ CardsInTricks(game) = 16
    /\ CardsInHands(game) = 24

\* the share of the players[j] of a deck dealt in equal contiguous shares
Share(cards, players, j) ==
    SubSeq(cards, (j - 1) * (Len(cards) \div Len(players)) + 1,
           j * (Len(cards) \div Len(players)))

RECURSIVE ConcatHands(_, _)
ConcatHands(hands, uuids) ==
    IF uuids = <<>> THEN <<>>
    ELSE hands[Head(uuids)] \o ConcatHands(hands, Tail(uuids))

\* C2: the deal is a partition of the shuffled deck: after initialize_game on
\* four players of distinct uuids, player j holds the j-th contiguous share of
\* 10 cards, and the hands concatenated in player order are the shuffled deck.
C2_DealIsPartition ==
    (pc = "initialized" /\ FourDistinctPlayers) =>
        /\ \A j \in 1..Len(game.players) :
              game.cards[game.players[j].uuid] = Share(deck, game.players, j)
        /\ ConcatHands(game.cards, Uuids(game.players)) = deck

\* the round r records 10 tricks of 4 plays, each player once in each trick
TenTricksOfFour(r) ==
    /\ Len(r.tricks) = 10
    /\ \A t \in 1..Len(r.tricks) :
          /\ Len(r.tricks[t]) = 4
          /\ \A u \in UuidSet(r.players) :
                Cardinality({n \in 1..Len(r.tricks[t]) : r.tricks[t][n].player = u}) = 1

\* C3: every round completed by gameflow with 4 players (of distinct uuids)
\* records exactly 10 tricks, each of exactly 4 plays, each of the 4 players
\* once in each trick.
C3_TenTricksOfFour ==
    FourDistinctPlayers =>
        /\ (HasGame /\ game.phase = "complete") => TenTricksOfFour(game)
        /\ \A n \in 1..Len(table["rounds"]) : TenTricksOfFour(table["rounds"][n])

C3_Witness ==
    /\ FourDistinctPlayers
    /\ pc = "returned"
    /\ Len(table["rounds"]) = 1
    /\ Len(table["rounds"][1].tricks) = 10
    /\ Len(table["rounds"][1].tricks[10]) = 4

\* every player of round r has an empty hand
HandsEmpty(r) ==
    /\ DOMAIN r.cards = UuidSet(r.players)
    /\ \A u \in DOMAIN r.cards : r.cards[u] = <<>>

\* C4: in every round whose phase is complete every player's hand is empty.
C4_CompleteHandsEmpty ==
    /\ (HasGame /\ game.phase = "complete") => HandsEmpty(game)
    /\ \A n \in 1..Len(table["rounds"]) :
          table["rounds"][n].phase = "complete" => HandsEmpty(table["rounds"][n])

C4_Witness ==
    /\ pc = "finalized"
    /\ game.phase = "complete"
    /\ HandsEmpty(game)
    /\ CardsInTricks(game) = 40

\* number of players of round r mapped to team
TeamSize(r, team) ==
    Cardinality({u \in DOMAIN r.player_teams : r.player_teams[u] = team})

TwoAndTwo(r) ==
    /\ DOMAIN r.player_teams = UuidSet(r.players)
    /\ TeamSize(r, "re") = 2
    /\ TeamSize(r, "kontra") = 2
    /\ TeamSize(r, "unknown") = 0

\* C5: whenever the phase of a round of 4 distinct players is playing or
\* complete, exactly 2 players are "re", exactly 2 are "kontra" and none is
\* "unknown".
C5_TwoReTwoKontra ==
    FourDistinctPlayers =>
        /\ (HasGame /\ game.phase \in {"playing", "complete"}) => TwoAndTwo(game)
        /\ \A n \in 1..Len(table["rounds"]) : TwoAndTwo(table["rounds"][n])

C5_Witness ==
    /\ FourDistinctPlayers
    /\ pc = "playing"
    /\ game.phase = "playing"
    /\ game.player_teams["uuid2"] = "re"
    /\ game.player_teams["uuid4"] = "re"
    /\ game.player_teams["uuid1"] = "kontra"

PhaseRank == [variant |-> 0, armut |-> 1, playing |-> 2, complete |-> 3]

\* C6: the phase only moves forward along variant -> [armut] -> playing ->
\* complete: no step of gameflow moves it to an earlier value, it leaves
\* variant only for armut or playing, it becomes complete only from playing,
\* it is variant after initialize_game, playing from play_all_tricks on and
\* complete after finalize_game.
C6_PhaseForward ==
    [][ /\ HasGame =>
            /\ PhaseRank[game'.phase] >= PhaseRank[game.phase]
            /\ (game.phase = "variant" /\ game'.phase # "variant") =>
                  game'.phase \in {"armut", "playing"}
            /\ (game.phase # "complete" /\ game'.phase = "complete") =>
                  game.phase = "playing"
        /\ pc' \in {"created", "teams", "initialized"} => game'.phase = "variant"
        /\ pc' = "playing" => game'.phase = "playing"
        /\ pc' \in {"finalized", "returned"} => game'.phase = "complete"
      ]_vars

C6_Witness ==
    /\ pc = "returned"
    /\ game.phase = "complete"
    /\ table["rounds"][Len(table["rounds"])].phase = "complete"

(***************************************************************************)
(* Properties of the table lifecycle (SpecTable)                           *)
(***************************************************************************)
\* the configured round count of table t
ConfiguredRounds(t) == DictGet(t, "num_rounds", 1)

\* C7: under any sequence of round advances (gameflow, play_round) on a
\* table with configured round count n >= 1, the status is "closed" if and
\* only if the number of recorded rounds is at least n.
C7_ClosedIffRoundsReached ==
    (table["status"] = "closed") <=>
        (Len(table["rounds"]) >= ConfiguredRounds(table))

C7_Witness ==
    /\ op = "play_round"
    /\ ConfiguredRounds(table) = 2
    /\ Len(table["rounds"]) = 2
    /\ table["status"] = "closed"

\* C8: a table configured for n rounds that starts with no round has, after k
\* advances with 1 <= k < n, exactly k rounds and status "waiting", and after
\* the n-th advance exactly n rounds and status "closed".
C8_StepByStep ==
    /\ (1 <= advances /\ advances < ConfiguredRounds(table)) =>
          /\ Len(table["rounds"]) = advances
          /\ table["status"] = "waiting"
    /\ advances = ConfiguredRounds(table) =>
          /\ Len(table["rounds"]) = advances
          /\ table["status"] = "closed"

C8_Witness ==
    /\ advances = 1
    /\ ConfiguredRounds(table) = 2
    /\ Len(table["rounds"]) = 1
    /\ table["status"] = "waiting"

\* play_table_rounds has been called on a table that is not closed and
\* records fewer rounds than it is configured for
OpenCall ==
    /\ op = "play_table_rounds"
    /\ arg["status"] # "closed"
    /\ Len(arg["rounds"]) < ConfiguredRounds(arg)

\* it has returned a closed table of exactly n complete rounds
ClosedResult ==
    /\ pc = "returned"
    /\ table["status"] = "closed"
    /\ Len(table["rounds"]) = ConfiguredRounds(arg)
    /\ \A n \in 1..Len(table["rounds"]) : table["rounds"][n].phase = "complete"

\* C9: play_table_rounds, called on a table of 4 players with configured
\* round count n >= 1 that is not closed and records k < n rounds, returns,
\* and what it returns is a closed table of exactly n rounds, each complete.
C9_PlayTableRoundsCloses ==
    /\ [](OpenCall /\ pc = "returned" => ClosedResult)
    /\ (OpenCall /\ pc = "reduce") ~> (OpenCall /\ ClosedResult)

C9_Witness ==
    /\ OpenCall
    /\ ClosedResult
    /\ Len(arg["rounds"]) = 1
    /\ Len(table["rounds"]) = 2

\* C10: play_round, and so play_table_rounds, applied to a closed table
\* returns the identical table value: no round appended, no field changed.
C10_ClosedIdempotent ==
    (op \in {"play_round", "play_table_rounds"} /\ arg["status"] = "closed") =>
        table = arg

C10_Witness ==
    /\ op = "play_table_rounds"
    /\ pc = "returned"
    /\ arg["status"] = "closed"
    /\ Len(arg["rounds"]) >= 1
    /\ table = arg

(***************************************************************************)
(* Properties of the lobby logins (SpecLogin)                              *)
(***************************************************************************)
\* the positions of the players of status that hold a logged-in player
LoggedIn(status) ==
    {j \in 1..Len(status.players) : IsDict(status.players[j])}

\* C16: after any sequence of login_player calls on one lobby the uuids of
\* all logged-in players are pairwise distinct.
C16_UuidsDistinct ==
    \A j, k \in LoggedIn(lobby) :
        j # k => lobby.players[j].uuid # lobby.players[k].uuid

\* a logged-in player of status holds name
NameHeld(status, name) ==
    \E j \in LoggedIn(status) : status.players[j].name = name

\* C17: login_player with an empty name or with a name a logged-in player
\* holds returns failure and no new state, and the lobby stays as it was; so
\* no two logged-in players of the lobby share a name.
C17_NamesUnique ==
    /\ \A j, k \in LoggedIn(lobby) :
          j # k => lobby.players[j].name # lobby.players[k].name
    /\ (op = "login_player" /\ (arg.name = "" \/ NameHeld(arg.status, arg.name))) =>
          /\ result[1] = FALSE
          /\ result[2] = None
          /\ result[3] = IF arg.name = "" THEN "Player name is required"
                                         ELSE "Player name already exists"
          /\ lobby = arg.status

C17_Witness ==
    /\ op = "login_player"
    /\ arg.name = "Player2"
    /\ NameHeld(arg.status, "Player2")
    /\ result[3] = "Player name already exists"
    /\ Cardinality(LoggedIn(lobby)) = 2
    /\ Len(lobby.players) = 3

(***************************************************************************)
(* Properties of the tables of the lobby (SpecLobby)                       *)
(***************************************************************************)
\* the operations of the engine and of the lobby on the table the caller holds
TableOps == {"gameflow", "play_round", "start_table", "add_player_to_table"}

\* C11: closed is terminal for a table: once the status of a table is
\* "closed", no operation of the engine or lobby (gameflow, play_round,
\* start_table, add_player_to_table) appends a round to it, clears its rounds
\* or changes its status.
C11_ClosedIsTerminal ==
    [][ (table # NoTable /\ table["status"] = "closed" /\ op' \in TableOps) =>
            (table'["rounds"] = table["rounds"] /\ table'["status"] = "closed")
      ]_vars

\* the table the caller holds has been started: start_table has written it
\* to the lobby with status "playing"
Started ==
    \E j \in 1..Len(lobby.tables) :
        /\ lobby.tables[j]["tablename"] = table["tablename"]
        /\ lobby.tables[j]["status"] = "playing"

\* C12: a table created by handle_create_table with rounds = n, started with
\* 4 players and advanced round by round, is closed exactly when n rounds have
\* been played.
C12_ClosedWhenRequestedRoundsPlayed ==
    (HoldsTable /\ Started /\ op \in {"gameflow", "play_round"}) =>
        ((table["status"] = "closed") <=> (Len(table["rounds"]) >= requested))

\* C14: a table never holds more than 4 players, the table the caller holds
\* as well as the tables of the lobby; add_player_to_table on a table of 4
\* players fails with "Table is full" and without a new lobby state, and the
\* caller keeps lobby and table as they were.
C14_AtMostFourPlayers ==
    /\ table # NoTable => Len(table["players"]) <= 4
    /\ \A j \in 1..Len(lobby.tables) : Len(lobby.tables[j]["players"]) <= 4
    /\ (op = "add_player_to_table" /\ Len(arg.table["players"]) = 4) =>
          /\ result[1] = FALSE
          /\ result[2] = None
          /\ result[3] = "Table is full"
          /\ lobby = arg.status
          /\ table = arg.table

C14_Witness ==
    /\ op = "add_player_to_table"
    /\ result[3] = "Table is full"
    /\ Len(table["players"]) = 4
    /\ table["players"][4] = Str("Player2")
    /\ lobby.tables[1] = table

\* the caller holds a table of status "playing"
Playing(t) == t # NoTable /\ t["status"] = "playing"

\* C15: start_table on a table of exactly 4 players succeeds and yields the
\* table with status "playing" and no rounds, in the lobby too; on a table of
\* any other number of players it fails with "Table must have exactly 4
\* players", without a new lobby state or table; and no other step makes the
\* status of a table "playing".
C15_StartNeedsFour ==
    /\ [](op = "start_table" =>
            IF Len(arg.table["players"]) = 4
            THEN /\ result[1]
                 /\ table = result[2][3]
                 /\ lobby = result[2][1]
                 /\ table["status"] = "playing"
                 /\ table["rounds"] = <<>>
                 /\ \E j \in 1..Len(lobby.tables) : lobby.tables[j] = table
            ELSE /\ result[1] = FALSE
                 /\ result[2] = None
                 /\ result[3] = "Table must have exactly 4 players"
                 /\ lobby = arg.status
                 /\ table = arg.table)
    /\ [][ (Playing(table') /\ ~Playing(table)) =>
              (op' = "start_table" /\ Len(table["players"]) = 4) ]_vars

C15_Witness ==
    /\ op = "start_table"
    /\ result[1]
    /\ Len(arg.table["players"]) = 4
    /\ arg.table["status"] = "open"
    /\ table["status"] = "playing"

(***************************************************************************)
(* Properties of teams and scores                                          *)
(***************************************************************************)
\* C13: teams are reshuffled between rounds: for any two consecutive rounds
\* of the same table the player -> team mapping of the second round differs
\* from that of the first.
C13_TeamsReshuffled ==
    \A n \in 1..(Len(table["rounds"]) - 1) :
        table["rounds"][n + 1].player_teams # table["rounds"][n].player_teams

\* the card points of a trick
TrickValue(trick) == SumSeq([n \in 1..Len(trick) |-> trick[n].card.value])

\* the card points of the tricks of round r that winners gives to team
TeamPoints(r, winners, team) ==
    SumSeq([t \in 1..Len(r.tricks) |->
               IF winners[t] = team THEN TrickValue(r.tricks[t]) ELSE 0])

\* C18: the score of a completed round is computed from its tricks: whoever
\* wins each trick, the score of each team is the sum of the card values of
\* the tricks won by that team.
C18_ScoreFromTricks ==
    (HasGame /\ game.phase = "complete" /\ FourDistinctPlayers) =>
        \E winners \in [1..Len(game.tricks) -> {"re", "kontra"}] :
            /\ game.score["re"] = TeamPoints(game, winners, "re")
            /\ game.score["kontra"] = TeamPoints(game, winners, "kontra")

\* score, final_score and end_time of round r as finalize_game leaves them
Scored(r) ==
    /\ r.score = r.final_score
    /\ DOMAIN r.score # {}
    /\ {"re", "kontra"} \subseteq DOMAIN r.score
    /\ r.score["re"] >= 0
    /\ r.score["kontra"] >= 0
    /\ r.end_time # None

\* and as create_initial_game_state leaves them
Unscored(r) ==
    /\ r.score = EmptyDict
    /\ r.final_score = EmptyDict
    /\ r.end_time = None

\* C19: every completed round has score and final_score set to the same
\* non-empty map with a non-negative entry for "re" and for "kontra", and has
\* end_time set; before finalize_game both maps are empty and end_time is
\* unset.
C19_ScoreSetOnCompletion ==
    /\ HasGame =>
          /\ game.phase = "complete" => Scored(game)
          /\ pc \in {"finalized", "returned"} => Scored(game)
          /\ pc \in {"created", "teams", "initialized", "variant", "poverty",
                     "playing"} => Unscored(game)
    /\ \A n \in 1..Len(table["rounds"]) : Scored(table["rounds"][n])

C19_Witness ==
    /\ pc = "returned"
    /\ Len(table["rounds"]) = 1
    /\ table["rounds"][1].phase = "complete"
    /\ table["rounds"][1].score = [re |-> 2, kontra |-> 1]
    /\ table["rounds"][1].final_score = [re |-> 2, kontra |-> 1]
    /\ table["rounds"][1].end_time = Now

(***************************************************************************)
(* Properties of the deal (SpecDeal)                                       *)
(***************************************************************************)
\* the deal the spec calls invalid
InvalidDeal(cards, players) ==
    \/ Len(cards) = 0
    \/ Len(players) = 0
    \/ Len(cards) % Len(players) # 0

TeamsAssigned == pc \notin {"gameflow", "created"}

\* C21: assign_teams fails with an error whenever the number of players is
\* not exactly 4: called on 2, 3 or 5 players it raises and produces no team
\* mapping.
C21_TeamsNeedFourPlayers ==
    (TeamsAssigned /\ Len(table["players"]) # 4) => pc = "raised"

\* C22: a failure inside a round aborts the table advance: gameflow run on a
\* table whose player list does not hold exactly 4 players ends in an error,
\* no round is appended to the table and its status is not changed.
C22_MalformedTableAborts ==
    Len(arg["players"]) # 4 => (pc # "returned" /\ table = arg)

\* a step of PlayTrick: play_trick is applied to the round of this state
TrickStep == pc = "playing" /\ trick_number' = trick_number + 1

\* the uuids of the players of round g who hold no card
EmptyHanded(g) == {u \in UuidSet(g.players) : g.cards[u] = <<>>}

\* the uuids of the players who play in a trick
PlayersOf(trick) == {trick[n].player : n \in 1..Len(trick)}

DealtHands == distribute_cards(deck, game.players)

\* the player list rotated so that the player of uuid lead comes first
Rotation(players, lead) ==
    LET uuids == Uuids(players)
        k == CHOOSE j \in 1..Len(uuids) : uuids[j] = lead
    IN  [n \in 1..Len(uuids) |-> uuids[((k - 1 + n - 1) % Len(uuids)) + 1]]

\* C27: within each trick the plays are recorded in rotation order of the
\* table's player list starting from the lead (current_player) of the trick,
\* and each player plays the first card of the current hand, the rest of the
\* hand keeping its order: in trick t (0-based) each player plays the card at
\* index t of the dealt hand.  Stated of four players of distinct uuids.
C27_RotationFromLeadFirstCard ==
    /\ []((Dealt /\ FourDistinctPlayers) =>
            /\ \A t \in 1..Len(game.tricks) :
                  \A n \in 1..Len(game.tricks[t]) :
                     game.tricks[t][n].card
                         = DealtHands[game.tricks[t][n].player][t]
            /\ \A u \in UuidSet(game.players) :
                  game.cards[u] = SubSeq(DealtHands[u], Len(game.tricks) + 1,
                                         Len(DealtHands[u])))
    /\ [][(TrickStep /\ FourDistinctPlayers) =>
            LET trick == game'.tricks[Len(game'.tricks)]
                order == Rotation(game.players, game.current_player)
            IN  /\ Len(game'.tricks) = Len(game.tricks) + 1
                /\ Len(trick) = Len(order)
                /\ \A n \in 1..Len(order) :
                      /\ trick[n].player = order[n]
                      /\ trick[n].card = Head(game.cards[order[n]])
                      /\ game'.cards[order[n]] = Tail(game.cards[order[n]])]_vars

\* a round of four distinct players whose lead is not the first of the
\* player list has played its ten tricks
C27_Witness ==
    /\ pc = "playing"
    /\ FourDistinctPlayers
    /\ Len(game.tricks) = NumTricks
    /\ game.tricks[NumTricks][1].player # game.players[1].uuid
    /\ game.tricks[NumTricks][1].card = DealtHands[game.tricks[NumTricks][1].player][NumTricks]

\* handle_variant_phase, the second function of the reduce of gameflow, is
\* behind
VariantResolved == pc \in {"variant", "poverty", "playing", "finalized", "returned"}

\* C28: variant selection always resolves the mode of the round to "normal",
\* so the poverty phase is never entered in a round of gameflow: the test
\* g["mode"] == "armut" that guards handle_poverty_phase never succeeds and
\* phase never takes the value "armut", in the round under construction and
\* in the rounds recorded on the table.
C28_NeverPoverty ==
    /\ HasGame => game.phase # "armut"
    /\ VariantResolved => game.mode = "normal"
    /\ \A n \in 1..Len(table["rounds"]) :
          /\ table["rounds"][n].mode = "normal"
          /\ table["rounds"][n].phase # "armut"

\* gameflow has returned a table whose new round went through the variant
\* selection and the playing phase
C28_Witness ==
    /\ pc = "returned"
    /\ Len(table["rounds"]) = Len(arg["rounds"]) + 1
    /\ table["rounds"][Len(table["rounds"])].mode = "normal"
    /\ table["rounds"][Len(table["rounds"])].phase = "complete"

\* C29: the lead never moves: current_player after a trick equals
\* current_player before it, so every trick of the round is led by the first
\* player chosen in initialize_game, and current_player is always one of the
\* players of the round.  Stated of four players of distinct uuids, from
\* initialize_game on.
C29_LeadNeverMoves ==
    /\ []((Dealt /\ FourDistinctPlayers) =>
            /\ game.current_player \in UuidSet(game.players)
            /\ \A t \in 1..Len(game.tricks) :
                  game.tricks[t][1].player = game.current_player)
    /\ [][(Dealt /\ FourDistinctPlayers) =>
            game'.current_player = game.current_player]_vars

\* the ten tricks of a round of four distinct players are played and the
\* last player of the list, chosen first player, still leads
C29_Witness ==
    /\ pc = "playing"
    /\ FourDistinctPlayers
    /\ trick_number = NumTricks
    /\ Len(game.tricks) = NumTricks
    /\ game.current_player = game.players[4].uuid
    /\ game.tricks[1][1].player = game.current_player

\* the positions of cards that hold the card of suit s and rank r
CopiesOf(cards, s, r) ==
    {n \in 1..Len(cards) : cards[n].suit = s /\ cards[n].rank = r}

\* C30: the deck built by create_cards, which initialize_game shuffles and
\* deals, has exactly 40 cards, each of the 20 combinations of the suits
\* hearts, spades, diamonds, clubs and the ranks ace, ten, king, queen, jack
\* occurring exactly twice, with the values 11, 10, 4, 3, 2, and a card is
\* trump if and only if its suit is diamonds or it is the queen of clubs.
C30_DeckOfForty ==
    Dealt =>
        /\ Len(deck) = 40
        /\ \A s \in {"hearts", "spades", "diamonds", "clubs"} :
              \A r \in {"ace", "ten", "king", "queen", "jack"} :
                 Cardinality(CopiesOf(deck, s, r)) = 2
        /\ \A n \in 1..Len(deck) :
              /\ deck[n].suit \in {"hearts", "spades", "diamonds", "clubs"}
              /\ deck[n].value = CASE deck[n].rank = "ace" -> 11
                                   [] deck[n].rank = "ten" -> 10
                                   [] deck[n].rank = "king" -> 4
                                   [] deck[n].rank = "queen" -> 3
                                   [] deck[n].rank = "jack" -> 2
              /\ deck[n].is_trump <=>
                    (deck[n].suit = "diamonds"
                        \/ (deck[n].suit = "clubs" /\ deck[n].rank = "queen"))

\* initialize_game has built and shuffled the deck; it holds the two queens
\* of clubs, trumps, and the two jacks of clubs, which are not
C30_Witness ==
    /\ pc = "initialized"
    /\ \A n \in CopiesOf(deck, "clubs", "queen") : deck[n].is_trump
    /\ \A n \in CopiesOf(deck, "clubs", "jack") : ~deck[n].is_trump
    /\ Cardinality(CopiesOf(deck, "clubs", "queen")) = 2
    /\ Cardinality(CopiesOf(deck, "clubs", "jack")) = 2

(***************************************************************************)
(* Properties of the history of a table (SpecTable)                        *)
(***************************************************************************)
\* table u is table t with exactly one round appended: the rounds of t are
\* kept, in their order, and tablename, players and the configured round
\* count are those of t
OneRoundAppended(t, u) ==
    /\ Len(u["rounds"]) = Len(t["rounds"]) + 1
    /\ SubSeq(u["rounds"], 1, Len(t["rounds"])) = t["rounds"]
    /\ u["tablename"] = t["tablename"]
    /\ u["players"] = t["players"]
    /\ ("num_rounds" \in DOMAIN u) = ("num_rounds" \in DOMAIN t)
    /\ DictGet(u, "num_rounds", 1) = DictGet(t, "num_rounds", 1)

\* C24: round history is append-only and completed rounds are immutable:
\* every table advance (gameflow) returns a table whose rounds are the
\* previous rounds, unchanged and in the same order, followed by exactly one
\* new round; tablename, players and the configured round count are
\* unchanged.  No step of play_round or play_table_rounds changes the table
\* in another way.
C24_RoundsAppendOnly ==
    /\ []((op = "gameflow" /\ pc = "returned") => OneRoundAppended(arg, table))
    /\ [][table' # table => OneRoundAppended(table, table')]_vars

\* gameflow has returned from a table that recorded a round already, with a
\* second round that differs from the first
C24_Witness ==
    /\ op = "gameflow"
    /\ pc = "returned"
    /\ Len(arg["rounds"]) = 1
    /\ Len(table["rounds"]) = 2
    /\ table["rounds"][1] = arg["rounds"][1]
    /\ table["rounds"][2] # table["rounds"][1]

(***************************************************************************)
(* Properties of the handlers of a player's action (SpecWire)              *)
(***************************************************************************)
\* C25: turn discipline: a player action (card play) submitted by a player
\* who is not the current player is rejected with an error outcome: it is
\* not silently dropped, not applied and not broadcast, and the state is
\* left unchanged.
C25_OutOfTurnRejected ==
    [][/\ (op' = "player_action"
              /\ DictGet(arg', "action", "") # ""
              /\ DictGet(arg', "player", "") \notin {"", game_state.current_turn}) =>
            (result'.error # None /\ sent' = sent /\ game_state' = game_state)
       /\ (op' = "card_play" /\ arg'.player_token # game.current_player) =>
            (result'.error # None /\ game' = game)]_vars

(***************************************************************************)
(* Properties of two tables advanced in any order (SpecPair)               *)
(***************************************************************************)
\* the tables that n calls of gameflow make of table t advanced alone
RECURSIVE AloneOutcomes(_, _)
AloneOutcomes(t, n) ==
    IF n = 0
    THEN {t}
    ELSE {gameflow(u, d) : u \in AloneOutcomes(t, n - 1),
                           d \in PairDraws(t["players"])}

JustDealt == pc \in {"initialized", "variant", "poverty"}

\* C31: after initialize_game on a round with 4 players the hands map has
\* exactly the 4 player uuids as keys, each hand holds exactly 10 cards, and
\* current_player is one of the 4 players.  Stated of four players of
\* distinct uuids.
C31_FourHandsOfTen ==
    (JustDealt /\ FourDistinctPlayers) =>
        /\ DOMAIN game.cards = UuidSet(game.players)
        /\ Cardinality(DOMAIN game.cards) = 4
        /\ \A u \in DOMAIN game.cards : Len(game.cards[u]) = 10
        /\ game.current_player \in UuidSet(game.players)

\* initialize_game has just returned on four distinct players, the third
\* of whom was drawn first player
C31_Witness ==
    /\ pc = "initialized"
    /\ FourDistinctPlayers
    /\ game.current_player = game.players[3].uuid
    /\ Len(game.cards[game.players[3].uuid]) = 10

(***************************************************************************)
(* Properties of a lobby of several tables (SpecHall)                      *)
(***************************************************************************)
\* the last call was a successful add_player_to_table or start_table
TableUpdated ==
    /\ op \in {"add_player_to_table", "start_table"}
    /\ result[1]

\* C32: add_player_to_table and start_table change exactly one table of the
\* lobby: in the returned lobby state the target table is replaced by the
\* updated table, every other table is identical to before in value and
\* position, and the players list of the lobby is unchanged, also when
\* create_table has been called twice with the same table name.
C32_OneTableChanged ==
    TableUpdated =>
        LET before == arg.status
        IN  /\ lobby.players = before.players
            /\ Len(lobby.tables) = Len(before.tables)
            /\ lobby.tables[arg.index] = result[2][3]
            /\ \A k \in 1..Len(before.tables) :
                  k # arg.index => lobby.tables[k] = before.tables[k]

\* C33: a player is seated at most once at a table: after any sequence of
\* add_player_to_table calls the players sequence of every table of the
\* lobby contains no player twice.
C33_SeatedOnce ==
    \A j \in 1..Len(lobby.tables) :
       LET players == lobby.tables[j]["players"]
       IN  \A a, b \in 1..Len(players) : a # b => players[a] # players[b]

(***************************************************************************)
(* Properties of the lobby store (SpecStore)                               *)
(***************************************************************************)
\* the ids of the tables of a list of table records
IdsOf(list) == {list[n]["id"] : n \in 1..Len(list)}

\* C37: the ids of the active tables of the lobby store are unique: after
\* any sequence of create_table and update_table_status calls (a status
\* 'completed' moves a table from tables to history) no two tables of
\* store['tables'] have the same id, and an id returned by create_table
\* differs from the ids of all tables active at the time of the call.
C37_ActiveIdsUnique ==
    /\ \A a, b \in 1..Len(store.tables) :
          a # b => store.tables[a]["id"] # store.tables[b]["id"]
    /\ op = "create_table" =>
          result.returned[1] \notin IdsOf(arg.store.tables)


(***************************************************************************)
(* Properties of the service handlers (SpecService)                        *)
(***************************************************************************)
\* C38: game completion in the service wiring happens at most once per game
\* id: handle_game_action ignores actions for ids not in active_games; a
\* 'game_over' action for an active id saves exactly one game record, removes
\* the id from active_games and broadcasts 'game_result' without an error, so
\* a later action for that id changes nothing and saves no further record.
C38_CompletedOnce ==
    [][op' = "handle_game_action" =>
          LET before == arg'.store
              game_id == arg'.game_id
          IN  /\ game_id \notin DOMAIN before.active_games =>
                    (store' = before /\ sent' = sent /\ result'.error = None)
              /\ (game_id \in DOMAIN before.active_games
                     /\ arg'.action_data.type = "game_over") =>
                    /\ Len(store'.game_store.games)
                          = Len(before.game_store.games) + 1
                    /\ game_id \notin DOMAIN store'.active_games
                    /\ result'.error = None
                    /\ Len(sent') = Len(sent) + 1
                    /\ sent'[Len(sent')].type = "game_result"]_vars


(***************************************************************************)
(* Properties of stopping the server (SpecStop)                            *)
(***************************************************************************)
\* C34: stop_server on a running server always completes without error and
\* leaves running = False and the clients set empty, under every
\* interleaving with the handle_client coroutines: no client is removed from
\* server['clients'] when it is already absent.
C34_StopCompletes ==
    /\ tasks.stop.error = None
    /\ tasks.stop.pc = "done" => (~server.running /\ server.clients = {})

\* C35: broadcast_message is only invoked while the server is running: under
\* every interleaving of disconnects, messages and stop_server, the cleanup
\* of handle_client never ends in the "Server is not running" RuntimeError.
C35_CleanupBroadcastsRunning ==
    \A client \in StopClients : Handler(client).error # "RuntimeError"


(***************************************************************************)
(* Properties of the messages on the server lobby (SpecMessages)           *)
(***************************************************************************)
\* the players seated at the first table of the lobby, which is the table
\* the join_table and start_table branches find
SeatedAtFirstTable ==
    IF lobby.tables = <<>> THEN 0 ELSE Len(lobby.tables[1]["players"])

\* C36: no lost update on the server lobby: every state-changing message
\* reads and writes the lobby without a suspension in between, so under any
\* interleaving of the messages of several clients the lobby holds the
\* effect of every message handled with success: one player per login, one
\* table per create_table, one seat per join_table, and a started table
\* after a start_table.
C36_NoLostUpdate ==
    /\ Len(lobby.players) = tasks.handled["player_connect"]
    /\ Len(lobby.tables) = tasks.handled["create_table"]
    /\ SeatedAtFirstTable = tasks.handled["join_table"]
    /\ tasks.handled["start_table"] > 0 => lobby.tables[1]["status"] = "playing"

\* two clients have each had a login handled and two others a table created
\* and joined, with both coroutines suspended after their writes
C36_Witness ==
    /\ tasks.handled["player_connect"] = 2
    /\ tasks.handled["create_table"] >= 1
    /\ tasks.handled["join_table"] >= 1
    /\ \A client \in MessageClients : tasks.handlers[client].pc = "reply"

====
